---- MODULE Spec2Model ----
(***************************************************************************)
(* Model of the datacube ingestion scheduler (scripts/ingest.py,           *)
(* process_tasks and _index_datasets), of the ingest command around it    *)
(* (ingest_cmd, ensure_output_type, create_task_list, find_diff) and of   *)
(* the S3 chunk index writer (drivers/s3/index.py, Index.add_datasets and *)
(* DatasetResource.add_s3_tables).                                        *)
(*                                                                         *)
(* A handle is the index of its task in the task sequence.  A logical     *)
(* dataset id is the pair <<task, i>>.  uuid4() yields an id that no      *)
(* stored row carries: the model numbers the stored ids, so the ids drawn *)
(* inside a transaction that is rolled back are drawn again.              *)
(***************************************************************************)
EXTENDS Integers, Sequences, FiniteSets, TLC

VARIABLES
    tasks,          \* the task sequence handed to process_tasks
    queue_size,     \* process_tasks' queue_size argument
    executor,       \* which executor backend is wired in
    pc,             \* position of process_tasks' loop
    pos,            \* number of tasks consumed from iter(tasks)
    pending,        \* process_tasks' list `pending`
    completed,      \* the list `completed` of the current cycle
    n_successful,   \* process_tasks' success counter
    n_failed,       \* process_tasks' failure counter
    status,         \* executor side: state of every handle
    db,             \* the catalog table and the three S3 tables
    uuid,           \* number of ids uuid4() has given to stored rows
    submitted,      \* history: how often each task was given to executor.submit
    reported,       \* history: handles get_ready returned as completed or failed
    offered,        \* history: number of indexing passes each handle was part of
    indexed,        \* history: number of non-raising passes each handle was part of
    lastPass,       \* history: the batch and outcome of the pass that has just ended
    index_failures, \* history: number of indexing passes that raised
    lastCall,       \* history: the latest direct call on the index
    included,       \* history: per direct call whose add_s3_tables returned, the
                    \* (dataset id, band) pairs it was given
    cells_in,       \* find_diff: the source product's cells, extent -> timestamps
    cells_out,      \* find_diff: the output product's cells, extent -> timestamps
    time_size,      \* find_diff's time_size argument
    new_tasks,      \* find_diff's list `new_tasks`
    dpc,            \* position of the diff engine
    cells_src,      \* history: cells_in as list_cells returned it
    cmd,            \* ingest_cmd's options
    config,         \* the ingest configuration ingest_cmd works with
    products,       \* the index's product table, as ensure_output_type sees it
    discovered,     \* the tasks find_diff discovered or load_tasks_ read, when
                    \* ingest_cmd went on to process_tasks with them
    cpc,            \* position of ingest_cmd
    ret             \* what ingest_cmd returned, or the exception that left it

vars == <<tasks, queue_size, executor, pc, pos, pending, completed, n_successful,
          n_failed, status, db, uuid, submitted, reported, offered, indexed,
          lastPass, index_failures, lastCall, included, cells_in, cells_out,
          time_size, new_tasks, dpc, cells_src, cmd, config, products, discovered,
          cpc, ret>>

\* The variables of the diff engine
diffVars == <<cells_in, cells_out, time_size, new_tasks, dpc, cells_src>>

\* The variables of the ingest command
cmdVars == <<cmd, config, products, discovered, cpc, ret>>

(***************************************************************************)
(* Bounds of the model.                                                    *)
(***************************************************************************)
\* longest task sequence of the scheduler specification
MaxTasks == 2
\* largest queue_size of the scheduler specification
MaxQueue == 2
\* most logical datasets (time steps) in one task's result
MaxDatasets == 2
\* bands in a task's storage output
NumBands == 1
\* chunk descriptors (key_maps) per band
NumChunks == 1
\* longest task sequence of the specification with fairness
LiveTasks == 2
\* indexing passes that may raise during one run
MaxIndexFailures == 1
\* direct calls of add_s3_tables and add_datasets in one behaviour
MaxCalls == 2
\* most dataset references handed to a direct add_s3_tables call
MaxRefs == 2
\* most bands in the storage output of a direct add_s3_tables call
MaxBands == 2
\* most chunk descriptors per band of a direct add_s3_tables call
MaxChunks == 1
\* timestamps a gridded cell may hold (the time axis is 1..MaxTimes)
MaxTimes == 3
\* largest time_size handed to find_diff
MaxSlice == 2
\* most axes of a band's array in the layouts of the layout specification
MaxAxes == 2
\* most coordinates of an irregular axis in those layouts
MaxCoords == 3
\* most chunk descriptors of a band in the calls of the chunk specification
MaxKeyMaps == 2
\* indexing passes followed against a catalog that is broken for good
MaxRetries == 3

Max(a, b) == IF a >= b THEN a ELSE b

Min(a, b) == IF a <= b THEN a ELSE b

Range(s) == {s[i] : i \in 1..Len(s)}

RECURSIVE SumOver(_, _)
SumOver(f, S) == IF S = {} THEN 0
                 ELSE LET x == CHOOSE y \in S : TRUE
                      IN f[x] + SumOver(f, S \ {x})

(***************************************************************************)
(* The Chunk Index Store: statements of one add_s3_tables call.           *)
(***************************************************************************)
EmptyDb == [dataset |-> {}, S3_DATASET |-> {}, S3_DATASET_CHUNK |-> {},
            S3_DATASET_MAPPING |-> {}]

\* Values.  A numpy scalar is [np |-> v]; the plain scalar the database takes
\* is <<v>>, and NULL (Python's None inside an array) is <<>>.  An index of
\* the storage output that may be None is None or Some(list).
Null == <<>>

NpScalar(v) == [np |-> v]

None == [none |-> TRUE]

Some(index) == [none |-> FALSE, index |-> index]

\* np.asscalar
AsScalar(x) == <<x.np>>

\* [list(map(np.asscalar, index)) for index in indices if index is not None]
ScalarIndices(indices) ==
    LET kept == SelectSeq(indices, LAMBDA e : ~e.none)
    IN [i \in 1..Len(kept) |-> [k \in 1..Len(kept[i].index) |-> AsScalar(kept[i].index[k])]]

\* max(map(len, indices))
MaxSize(indices) ==
    CHOOSE m \in {Len(indices[i]) : i \in 1..Len(indices)} :
        \A i \in 1..Len(indices) : Len(indices[i]) <= m

\* padding on the left of each index
PadLeft(indices) ==
    IF indices = <<>> THEN indices
    ELSE [i \in 1..Len(indices) |->
             [k \in 1..(MaxSize(indices) - Len(indices[i])) |-> Null] \o indices[i]]

\* padding to the size of the first index
PadToFirst(indices) ==
    IF indices = <<>> THEN indices
    ELSE [i \in 1..Len(indices) |->
             indices[i] \o [k \in 1..(Len(indices[1]) - Len(indices[i])) |-> Null]]

\* line 107-110: every index padded with None to the size of the longest
Pad(indices) ==
    IF indices = <<>> THEN indices
    ELSE [i \in 1..Len(indices) |->
             indices[i] \o [k \in 1..(MaxSize(indices) - Len(indices[i])) |-> Null]]

\* put_s3_dataset: the S3_DATASET row inserted for one band
PutS3Dataset(s3_dataset_id, base_name, band, bucket, macro_shape, chunk_size, numpy_type, dimensions, regular_dims, regular_index, irregular_index) ==
    [table |-> "S3_DATASET",
     row |-> [id |-> s3_dataset_id, base_name |-> base_name, band |-> band,
              bucket |-> bucket, macro_shape |-> macro_shape, chunk_size |-> chunk_size,
              numpy_type |-> numpy_type, dimensions |-> dimensions,
              regular_dims |-> regular_dims, regular_index |-> regular_index,
              irregular_index |-> irregular_index]]

\* _add_s3_dataset: the indices made plain scalars, the irregular ones padded
AddS3Dataset(s3_dataset_id, band, output) ==
    PutS3Dataset(s3_dataset_id, output.base_name, band, output.bucket, output.macro_shape,
                 output.chunk_size, output.numpy_type, output.dimensions,
                 output.regular_dims, ScalarIndices(output.regular_index),
                 Pad(ScalarIndices(output.irregular_index)))

\* put_s3_dataset_chunk: one S3_DATASET_CHUNK row, its id a fresh uuid4()
PutS3DatasetChunk(id, s3_dataset_id, s3_key, chunk_id, compression_scheme, micro_shape, index_min, index_max) ==
    [table |-> "S3_DATASET_CHUNK",
     row |-> [id |-> id, s3_dataset_id |-> s3_dataset_id, s3_key |-> s3_key,
              chunk_id |-> chunk_id, compression_scheme |-> compression_scheme,
              micro_shape |-> micro_shape, index_min |-> index_min,
              index_max |-> index_max]]

\* a micro_shape of one number, the size of the chunk along its first axis
MicroShapeFirstAxis(chunk) == <<chunk[1].stop - chunk[1].start>>

\* a micro_shape of the upper slice bounds
MicroShapeStop(chunk) == [a \in 1..Len(chunk) |-> chunk[a].stop]

\* line 141: chunk_dim.stop - chunk_dim.start for every axis of the chunk
MicroShape(chunk) == [a \in 1..Len(chunk) |-> chunk[a].stop - chunk[a].start]

\* line 141-157: the insert for one key_map
AddS3DatasetChunk(id, s3_dataset_id, key_map) ==
    PutS3DatasetChunk(id, s3_dataset_id, key_map.s3_key, key_map.chunk_id,
                      key_map.compression, MicroShape(key_map.chunk),
                      [a \in 1..Len(key_map.index_min) |-> AsScalar(key_map.index_min[a])],
                      [a \in 1..Len(key_map.index_max) |-> AsScalar(key_map.index_max[a])])

\* a mapping row that points to its own id
PutS3MappingDangling(id, dataset_ref, band, s3_dataset_id) ==
    [table |-> "S3_DATASET_MAPPING",
     row |-> [id |-> id, dataset_ref |-> dataset_ref, band |-> band,
              s3_dataset_id |-> id]]

\* put_s3_mapping: one S3_DATASET_MAPPING row, its id a fresh uuid4()
PutS3Mapping(id, dataset_ref, band, s3_dataset_id) ==
    [table |-> "S3_DATASET_MAPPING",
     row |-> [id |-> id, dataset_ref |-> dataset_ref, band |-> band,
              s3_dataset_id |-> s3_dataset_id]]

\* the inserts of one band with a mapping row for the first dataset
\* reference only
BandStatementsFirstRef(dataset_refs, item, u0) ==
    LET s3_dataset_id == u0 + 1
        k == Len(item.output.key_maps)
    IN <<AddS3Dataset(s3_dataset_id, item.band, item.output)>>
       \o [i \in 1..k |->
              AddS3DatasetChunk(u0 + 1 + i, s3_dataset_id, item.output.key_maps[i])]
       \o [j \in 1..Min(1, Len(dataset_refs)) |->
              PutS3Mapping(u0 + 1 + k + j, dataset_refs[j], item.band, s3_dataset_id)]

\* The inserts of one band, in program order: the chunk set (its id is the
\* uuid4() of line 189), one row per key_map, one row per dataset reference.
BandStatements(dataset_refs, item, u0) ==
    LET s3_dataset_id == u0 + 1
        k == Len(item.output.key_maps)
    IN <<AddS3Dataset(s3_dataset_id, item.band, item.output)>>
       \o [i \in 1..k |->
              AddS3DatasetChunk(u0 + 1 + i, s3_dataset_id, item.output.key_maps[i])]
       \o [j \in 1..Len(dataset_refs) |->
              PutS3Mapping(u0 + 1 + k + j, dataset_refs[j], item.band, s3_dataset_id)]

\* The inserts of the loop over storage_output.items()
RECURSIVE S3Statements(_, _, _)
S3Statements(dataset_refs, storage_output, u0) ==
    IF storage_output = <<>> THEN <<>>
    ELSE LET first == BandStatements(dataset_refs, Head(storage_output), u0)
         IN first \o S3Statements(dataset_refs, Tail(storage_output), u0 + Len(first))

\* Rows of one table among a sequence of executed statements
RowsOf(stmts, table) == {stmts[i].row : i \in {j \in 1..Len(stmts) : stmts[j].table = table}}

\* inserts that replace what the tables held
ExecuteOverwrite(d, stmts) ==
    [d EXCEPT !.S3_DATASET = RowsOf(stmts, "S3_DATASET"),
              !.S3_DATASET_CHUNK = RowsOf(stmts, "S3_DATASET_CHUNK"),
              !.S3_DATASET_MAPPING = RowsOf(stmts, "S3_DATASET_MAPPING")]

\* A database after the statements were executed on its connection
Execute(d, stmts) ==
    [d EXCEPT !.S3_DATASET = @ \cup RowsOf(stmts, "S3_DATASET"),
              !.S3_DATASET_CHUNK = @ \cup RowsOf(stmts, "S3_DATASET_CHUNK"),
              !.S3_DATASET_MAPPING = @ \cup RowsOf(stmts, "S3_DATASET_MAPPING")]

\* a lookup by band alone
GetS3DatasetOfBand(d, dataset_ref, band) ==
    LET joined == {p \in d.S3_DATASET \X d.S3_DATASET_MAPPING : p[2].s3_dataset_id = p[1].id}
        where == {p \in joined : p[2].band = band}
    IN [s \in {p[1] : p \in where} |-> Cardinality({p \in where : p[1] = s})]

\* get_s3_dataset: S3_DATASET joined to S3_DATASET_MAPPING on the chunk set
\* id, filtered by the mapping's dataset_ref and band.  The outer join adds
\* the chunk sets without a mapping, with NULL mapping columns, which the
\* WHERE clause rejects.  fetchall() gives one entry per joined row: the
\* result maps each S3_DATASET row it holds to its number of entries.
GetS3Dataset(d, dataset_ref, band) ==
    LET joined == {p \in d.S3_DATASET \X d.S3_DATASET_MAPPING : p[2].s3_dataset_id = p[1].id}
        where == {p \in joined : p[2].dataset_ref = dataset_ref /\ p[2].band = band}
    IN [s \in {p[1] : p \in where} |-> Cardinality({p \in where : p[1] = s})]

\* add_specifics: the lookups it makes, one per measurement of the dataset
\* (none when the dataset has no measurements)
AddSpecificsLookups(d, dataset_id, measurements) ==
    [band \in measurements |-> GetS3Dataset(d, dataset_id, band)]

\* add_specifics: the values dataset.s3_metadata may end with; per band the
\* entry holds the chunk set fetchall() returned last
S3Metadata(d, dataset_id, measurements) ==
    LET lookups == AddSpecificsLookups(d, dataset_id, measurements)
        found == {band \in measurements : DOMAIN lookups[band] # {}}
    IN {[band \in found |-> [s3_dataset |-> choice[band]]] :
           choice \in [found -> d.S3_DATASET] \cap
                      {c \in [found -> d.S3_DATASET] :
                          \A band \in found : c[band] \in DOMAIN lookups[band]}}

\* The (dataset id, band) pairs an add_s3_tables call is given
Included(dataset_refs, storage_output) ==
    {<<dataset_refs[j], storage_output[b].band>> :
        j \in 1..Len(dataset_refs), b \in 1..Len(storage_output)}

\* add_s3_tables without its transaction: what was inserted before the
\* exception stays.
AddS3TablesNoRollback(d, dataset_refs, storage_output, u0, failAt) ==
    LET stmts == S3Statements(dataset_refs, storage_output, u0)
    IN IF failAt = 0
       THEN [db |-> Execute(d, stmts), uuid |-> u0 + Len(stmts), raised |-> FALSE]
       ELSE [db |-> Execute(d, SubSeq(stmts, 1, failAt - 1)), uuid |-> u0 + failAt - 1,
             raised |-> TRUE]

\* add_s3_tables with one transaction per band: the bands written before
\* the band whose insert raised stay.
AddS3TablesPerBand(d, dataset_refs, storage_output, u0, failAt) ==
    LET stmts == S3Statements(dataset_refs, storage_output, u0)
        ends == {Len(S3Statements(dataset_refs, SubSeq(storage_output, 1, b), u0)) :
                    b \in 0..Len(storage_output)}
        kept == CHOOSE e \in {f \in ends : f < failAt} :
                    \A f \in ends : f < failAt => f <= e
    IN IF failAt = 0
       THEN [db |-> Execute(d, stmts), uuid |-> u0 + Len(stmts), raised |-> FALSE]
       ELSE [db |-> Execute(d, SubSeq(stmts, 1, kept)), uuid |-> u0 + kept,
             raised |-> TRUE]

\* add_s3_tables: all inserts of all bands run in one transaction
\* (with self._db.begin()).  failAt = 0: no insert raises; failAt = k: the
\* k-th insert raises and the transaction is rolled back.
AddS3Tables(d, dataset_refs, storage_output, u0, failAt) ==
    LET stmts == S3Statements(dataset_refs, storage_output, u0)
    IN IF failAt = 0
       THEN [db |-> Execute(d, stmts), uuid |-> u0 + Len(stmts), raised |-> FALSE]
       ELSE [db |-> d, uuid |-> u0, raised |-> TRUE]

(***************************************************************************)
(* Index.add_datasets and _index_datasets.                                 *)
(***************************************************************************)
\* The layout the storage driver reports for one band.  sizes[a] is the
\* number of coordinates of axis a when it is irregular and 0 when it is
\* regular; an array of 3 elements along every axis is cut into chunks of 2.
KeyMap(base_name, sizes, k) ==
    [s3_key |-> <<base_name, k>>, chunk_id |-> k, compression |-> "None",
     chunk |-> [a \in 1..Len(sizes) |->
                   IF k = 1 THEN [start |-> 0, stop |-> 2] ELSE [start |-> 2, stop |-> 3]],
     index_min |-> [a \in 1..Len(sizes) |-> NpScalar(IF k = 1 THEN 0 ELSE 2)],
     index_max |-> [a \in 1..Len(sizes) |-> NpScalar(IF k = 1 THEN 1 ELSE 2)]]

OutputOf(base_name, sizes, nchunks) ==
    [base_name |-> base_name, bucket |-> "bucket",
     macro_shape |-> [a \in 1..Len(sizes) |-> 3],
     chunk_size |-> [a \in 1..Len(sizes) |-> 2],
     numpy_type |-> "int16",
     dimensions |-> [a \in 1..Len(sizes) |-> a],
     regular_dims |-> [a \in 1..Len(sizes) |-> sizes[a] = 0],
     regular_index |-> [a \in 1..Len(sizes) |->
                           IF sizes[a] = 0
                           THEN Some(<<NpScalar(0), NpScalar(2), NpScalar(1)>>)
                           ELSE None],
     irregular_index |-> [a \in 1..Len(sizes) |->
                             IF sizes[a] = 0 THEN None
                             ELSE Some([k \in 1..sizes[a] |-> NpScalar(10 * a + k)])],
     key_maps |-> [k \in 1..nchunks |-> KeyMap(base_name, sizes, k)]]

\* The axes of an ingested tile: an irregular time axis of one coordinate
\* and two regular spatial axes
TileAxes == <<1, 0, 0>>

\* The storage output of the task with tile_index t, as returned by
\* write_dataset_to_storage: the items of the band -> output mapping
StorageOutput(t) ==
    [b \in 1..NumBands |-> [band |-> b, output |-> OutputOf(t, TileAxes, NumChunks)]]

\* ingest_work's return value for task t: one dataset per time step of the
\* tile, with the storage output attached
IngestWork(t, nds) ==
    [values |-> [i \in 1..nds |-> <<t, i>>], storage_output |-> StorageOutput(t)]

\* DatasetResource.add: the catalog insert of one dataset (adding a dataset
\* that is already indexed leaves the catalog as it is)
DatasetsAdd(d, dataset) == [d EXCEPT !.dataset = @ \cup {dataset}]

RECURSIVE DatasetsAddAll(_, _)
DatasetsAddAll(d, values) ==
    IF values = <<>> THEN d ELSE DatasetsAddAll(DatasetsAdd(d, Head(values)), Tail(values))

\* Number of inserts one add_datasets call issues
StatementCount(datasets) ==
    Len(datasets.values) + Len(S3Statements(datasets.values, datasets.storage_output, 0))

\* an add_datasets that returns 1 for the call instead of the dataset count
AddDatasetsCountsCall(d, u0, datasets, failAt) ==
    LET nd == Len(datasets.values)
    IN IF failAt \in 1..nd
       THEN [db |-> DatasetsAddAll(d, SubSeq(datasets.values, 1, failAt - 1)),
             uuid |-> u0, raised |-> TRUE, n |-> 0]
       ELSE LET r == AddS3Tables(DatasetsAddAll(d, datasets.values), datasets.values,
                                 datasets.storage_output, u0,
                                 IF failAt = 0 THEN 0 ELSE failAt - nd)
            IN [db |-> r.db, uuid |-> r.uuid, raised |-> r.raised,
                n |-> IF r.raised THEN 0 ELSE 1]

\* Index.add_datasets.  failAt = 0: nothing raises; failAt = k: the k-th
\* insert of the call raises (the catalog inserts come first, one per
\* dataset, then the inserts of add_s3_tables).
AddDatasets(d, u0, datasets, failAt) ==
    LET nd == Len(datasets.values)
    IN IF failAt \in 1..nd
       THEN [db |-> DatasetsAddAll(d, SubSeq(datasets.values, 1, failAt - 1)),
             uuid |-> u0, raised |-> TRUE, n |-> 0]
       ELSE LET d1 == DatasetsAddAll(d, datasets.values)
                n == nd
            IN IF n = Len(datasets.values)
               THEN LET r == AddS3Tables(d1, datasets.values, datasets.storage_output, u0,
                                         IF failAt = 0 THEN 0 ELSE failAt - nd)
                    IN [db |-> r.db, uuid |-> r.uuid, raised |-> r.raised,
                        n |-> IF r.raised THEN 0 ELSE n]
               ELSE [db |-> d1, uuid |-> u0, raised |-> TRUE, n |-> 0]

\* a loop that returns after its first result
IndexDatasetsFirstOnly(d, u0, results, failAt) ==
    IF results = <<>> THEN [db |-> d, uuid |-> u0, raised |-> FALSE, n |-> 0]
    ELSE LET cnt == StatementCount(Head(results))
         IN AddDatasets(d, u0, Head(results), IF failAt \in 1..cnt THEN failAt ELSE 0)

\* _index_datasets: one add_datasets call per result, the counts summed.
\* failAt counts the inserts of the whole pass; an exception leaves the loop.
RECURSIVE IndexDatasets(_, _, _, _)
IndexDatasets(d, u0, results, failAt) ==
    IF results = <<>> THEN [db |-> d, uuid |-> u0, raised |-> FALSE, n |-> 0]
    ELSE LET cnt == StatementCount(Head(results))
             r == AddDatasets(d, u0, Head(results), IF failAt \in 1..cnt THEN failAt ELSE 0)
         IN IF r.raised THEN r
            ELSE LET rest == IndexDatasets(r.db, r.uuid, Tail(results),
                                           IF failAt = 0 THEN 0 ELSE failAt - cnt)
                 IN IF rest.raised THEN rest ELSE [rest EXCEPT !.n = r.n + @]

\* The exceptions DatasetResource.add and the database connection may raise:
\* a ValueError, or an exception of any other class
ExceptionKinds == {"ValueError", "Exception"}

\* Index.add_datasets as its caller sees it: the database it leaves and the
\* exception that leaves it.  Line 53-54 raises ValueError when the attribute
\* storage_output is missing; line 64 raises ValueError; an exception raised
\* by DatasetResource.add (line 58) or inside add_s3_tables (line 62) is not
\* caught and leaves add_datasets as it is.
AddDatasetsOutcome(d, u0, datasets, failAt, exc) ==
    IF "storage_output" \notin DOMAIN datasets
    THEN [db |-> d, uuid |-> u0, raised |-> TRUE, n |-> 0, error |-> "ValueError"]
    ELSE LET r == AddDatasets(d, u0, datasets, failAt)
         IN [db |-> r.db, uuid |-> r.uuid, raised |-> r.raised, n |-> r.n,
             error |-> IF ~r.raised THEN "none"
                       ELSE IF failAt = 0 THEN "ValueError"
                       ELSE exc]

RECURSIVE PassStatementCount(_)
PassStatementCount(results) ==
    IF results = <<>> THEN 0
    ELSE StatementCount(Head(results)) + PassStatementCount(Tail(results))

(***************************************************************************)
(* The executor, by its contract: submit, get_ready, result, results.     *)
(***************************************************************************)
\* "async": a handle runs until a worker completes it or fails it; "failing":
\* every handle is failed at once; "serial": submit runs the task before it
\* returns, so get_ready reports every handle completed at the first poll
Executors == {"async", "failing", "serial"}

\* executor.submit: the state of the new handle
Submit(kind) ==
    IF kind = "failing" THEN "failed"
    ELSE IF kind = "serial" THEN "completed"
    ELSE "running"

\* executor.get_ready: a snapshot that partitions the handles, order kept
GetReady(p, st) ==
    [completed |-> SelectSeq(p, LAMBDA h : st[h] = "completed"),
     failed |-> SelectSeq(p, LAMBDA h : st[h] = "failed"),
     pending |-> SelectSeq(p, LAMBDA h : st[h] = "running")]

\* What the executor's workers may have done to the handles since the last
\* snapshot: a running handle is still running, or has completed, or has
\* failed; a handle that completed or failed stays so.
Progress(st) ==
    {st2 \in [DOMAIN st -> {"none", "running", "completed", "failed"}] :
        \A t \in DOMAIN st :
            IF st[t] = "running" THEN st2[t] # "none" ELSE st2[t] = st[t]}

\* executor.result re-raises for a failed handle
ResultRaises(h, st) == st[h] = "failed"

\* executor.results: the return values of the completed handles, in order
Results(handles, ts) ==
    [i \in 1..Len(handles) |-> IngestWork(ts[handles[i]].tile_index, ts[handles[i]].nds)]

(***************************************************************************)
(* process_tasks.                                                          *)
(***************************************************************************)
\* a top-up that forgets what is already in flight
TopUpCountFull(q, p) == q

\* max(0, queue_size - len(pending)): how many tasks a top-up may pull
TopUpCount(q, p) == Max(0, q - Len(p))

\* a slice of the task list itself, which starts at its head every time
ISliceRestart(ts, ps, k) == [i \in 1..Min(k, Len(ts) - ps) |-> i]

\* itertools.islice(tasks, k) on the iterator at position ps
ISlice(ts, ps, k) == [i \in 1..Min(k, Len(ts) - ps) |-> ps + i]

\* leaving the loop as soon as the task source is exhausted
LoopBreakOnExhausted(p, ps, ts) == ps = Len(ts)

\* a test that no list passes (`if pending is None: break`)
LoopBreakIsNone(p, ps, ts) == p = <<>> /\ ps < 0

\* `if not pending: break`
LoopBreak(p, ps, ts) == p = <<>>

\* one increment per cycle that saw a failure
CountFailedOnce(failed, st) == IF failed = <<>> THEN 0 ELSE 1

\* the loop over `failed`: one increment per handle whose result raises
CountFailed(failed, st) == Cardinality({i \in 1..Len(failed) : ResultRaises(failed[i], st)})

\* a test that never skips the indexing pass
NothingCompletedNever(c) == FALSE

\* line 324: `if not completed`, which sleeps and continues the loop
NothingCompleted(c) == c = <<>>

\* results fetched for every handle in flight
FetchedInFlight(c, p) == c \o p

\* line 328: the handles whose results executor.results is asked for
Fetched(c, p) == c

\* an except branch that only logs
PushBackDropped(p, c) == p

\* `pending += completed` after a pass that raised
PushBack(p, c) == p \o c

TaskSequences(lengths, counts) ==
    UNION {{[i \in 1..n |-> [tile_index |-> i, nds |-> f[i]]] : f \in [1..n -> counts]} :
              n \in lengths}

NoPass == [batch |-> <<>>, failAt |-> 0, raised |-> FALSE]

NoCall == [op |-> "none", before |-> EmptyDb, dataset_refs |-> <<>>,
           storage_output |-> <<>>, u0 |-> 0, failAt |-> 0, raised |-> FALSE,
           error |-> "none", result |-> 0, calls |-> 0]

\* The diff engine when it is not the subject of the specification
DiffIdle ==
    /\ cells_in = <<>>
    /\ cells_out = <<>>
    /\ time_size = 1
    /\ new_tasks = <<>>
    /\ dpc = "idle"
    /\ cells_src = <<>>

\* ingest_cmd's options: the files given, the two modes that stop before
\* scheduling, and --allow-product-changes
NoOptions == [config_file |-> FALSE, load_tasks |-> FALSE, dry_run |-> FALSE,
              save_tasks |-> FALSE, allow_product_changes |-> FALSE]

\* The product table: whether the source product and the output product
\* exist, what can_update reports for the output product, and how often
\* products.add and products.update were called
NoProducts == [source |-> TRUE, existing |-> FALSE, safe_changes |-> FALSE,
               unsafe_changes |-> FALSE, added |-> 0, updated |-> 0]

\* The ingest command when it is not the subject of the specification:
\* process_tasks is called on its own
CmdIdle ==
    /\ cmd = NoOptions
    /\ config = [fuser |-> FALSE]
    /\ products = NoProducts
    /\ discovered = <<>>
    /\ cpc = "idle"
    /\ ret = "none"

SchedulerInit(taskSeqs, queueSizes, kinds) ==
    /\ CmdIdle
    /\ tasks \in taskSeqs
    /\ queue_size \in queueSizes
    /\ executor \in kinds
    /\ pc = "topup"
    /\ pos = 0
    /\ pending = <<>>
    /\ completed = <<>>
    /\ n_successful = 0
    /\ n_failed = 0
    /\ status = [t \in 1..Len(tasks) |-> "none"]
    /\ db = EmptyDb
    /\ uuid = 0
    /\ submitted = [t \in 1..Len(tasks) |-> 0]
    /\ reported = {}
    /\ offered = [t \in 1..Len(tasks) |-> 0]
    /\ indexed = [t \in 1..Len(tasks) |-> 0]
    /\ lastPass = NoPass
    /\ index_failures = 0
    /\ lastCall = NoCall
    /\ included = <<>>

InitWith(taskSeqs, queueSizes, kinds) ==
    /\ SchedulerInit(taskSeqs, queueSizes, kinds)
    /\ DiffIdle

Init == InitWith(TaskSequences(0..MaxTasks, 1..MaxDatasets), 1..MaxQueue, Executors)

\* line 310-312: top up the in-flight list, leave the loop when it is empty
TopUp ==
    /\ pc = "topup"
    /\ LET new == ISlice(tasks, pos, TopUpCount(queue_size, pending))
           p == pending \o new
       IN /\ pending' = p
          /\ pos' = pos + Len(new)
          /\ status' = [t \in 1..Len(tasks) |->
                           IF t \in Range(new) THEN Submit(executor) ELSE status[t]]
          /\ submitted' = [t \in 1..Len(tasks) |->
                              IF t \in Range(new) THEN submitted[t] + 1 ELSE submitted[t]]
          /\ pc' = IF LoopBreak(p, pos + Len(new), tasks) THEN "done" ELSE "poll"
    /\ lastPass' = NoPass
    /\ UNCHANGED <<tasks, queue_size, executor, completed, n_successful, n_failed, db,
                   uuid, reported, offered, indexed, index_failures, lastCall>>
    /\ UNCHANGED included
    /\ UNCHANGED diffVars
    /\ UNCHANGED cmdVars

\* line 314-326: poll the executor, count the failed handles, and go round
\* again when nothing completed
Poll ==
    /\ pc = "poll"
    /\ \E st \in Progress(status) :
         LET ready == GetReady(pending, st)
         IN /\ status' = st
            /\ pending' = ready.pending
            /\ completed' = ready.completed
            /\ n_failed' = n_failed + CountFailed(ready.failed, st)
            /\ reported' = reported \cup Range(ready.completed) \cup Range(ready.failed)
            /\ pc' = IF NothingCompleted(ready.completed) THEN "topup" ELSE "index"
    /\ UNCHANGED <<tasks, queue_size, executor, pos, n_successful, db, uuid, submitted,
                   offered, indexed, lastPass, index_failures, lastCall>>
    /\ UNCHANGED included
    /\ UNCHANGED diffVars
    /\ UNCHANGED cmdVars

\* line 328-335 for a pass whose failAt-th insert raises (failAt = 0: none
\* does); when it raises the batch goes back into `pending`
Pass(failAt) ==
    /\ lastPass' = [batch |-> completed, failAt |-> failAt, raised |-> failAt # 0]
    /\ \E r \in {IndexDatasets(db, uuid, Results(Fetched(completed, pending), tasks),
                                failAt)} :
         /\ r.raised = (failAt # 0)
         /\ index_failures' = IF r.raised THEN index_failures + 1 ELSE index_failures
         /\ db' = r.db
         /\ uuid' = r.uuid
         /\ n_successful' = IF r.raised THEN n_successful ELSE n_successful + r.n
         /\ pending' = IF r.raised THEN PushBack(pending, completed) ELSE pending
         /\ offered' = [t \in 1..Len(tasks) |->
                           IF t \in Range(completed) THEN offered[t] + 1 ELSE offered[t]]
         /\ indexed' = [t \in 1..Len(tasks) |->
                           IF t \in Range(completed) /\ ~r.raised
                           THEN indexed[t] + 1 ELSE indexed[t]]
    /\ completed' = <<>>
    /\ pc' = "topup"
    /\ UNCHANGED <<tasks, queue_size, executor, pos, n_failed, status, submitted,
                   reported, lastCall>>
    /\ UNCHANGED included
    /\ UNCHANGED diffVars
    /\ UNCHANGED cmdVars

\* line 328-335: one indexing pass over the completed batch
IndexPass ==
    /\ pc = "index"
    /\ \E failAt \in 0..PassStatementCount(Results(Fetched(completed, pending), tasks)) :
         /\ failAt # 0 => index_failures < MaxIndexFailures
         /\ Pass(failAt)

\* line 328-335 against a catalog that is broken for good: in every pass
\* some insert raises
BrokenIndexPass ==
    /\ pc = "index"
    /\ index_failures < MaxRetries
    /\ \E failAt \in 1..PassStatementCount(Results(Fetched(completed, pending), tasks)) :
         Pass(failAt)

Next == TopUp \/ Poll \/ IndexPass

Spec == Init /\ [][Next]_vars

\* process_tasks against the broken catalog, every task of as many
\* datasets as a task may hold
BrokenInit == InitWith(TaskSequences(0..MaxTasks, {MaxDatasets}), 1..MaxQueue, Executors)

BrokenNext == TopUp \/ Poll \/ BrokenIndexPass

BrokenSpec == BrokenInit /\ [][BrokenNext]_vars

\* A poll in which the executor reports handle t completed or failed
Reports(t) == Poll /\ t \notin reported /\ t \in reported'

\* The step from the indexing pass back to the top of the loop
IndexStep == pc = "index" /\ pc' = "topup"

\* An indexing pass that does not raise
IndexStepSucceeds == IndexStep /\ index_failures' = index_failures

\* The scheduler keeps running, every submitted handle is eventually
\* reported completed or failed, and indexing eventually succeeds.
Fairness ==
    /\ WF_vars(TopUp)
    /\ WF_vars(Poll)
    /\ WF_pc(IndexStep)
    /\ \A t \in 1..LiveTasks : SF_vars(Reports(t))
    /\ SF_<<pc, index_failures>>(IndexStepSucceeds)

FairInit == InitWith(TaskSequences(0..LiveTasks, {MaxDatasets}), 1..MaxQueue, Executors)

FairSpec == FairInit /\ [][Next]_vars /\ Fairness

\* A run over five tasks of equally many datasets each, with room for all of
\* them in the queue
BatchInit ==
    InitWith(UNION {TaskSequences({5}, {nds}) : nds \in 1..MaxDatasets}, {5}, {"async"})

BatchSpec == BatchInit /\ [][Next]_vars

(***************************************************************************)
(* The Chunk Index Store on its own: direct calls of add_s3_tables.       *)
(***************************************************************************)
\* A storage output of nbands bands with nchunks chunk descriptors each
StorageOutputOf(base_name, nbands, nchunks) ==
    [b \in 1..nbands |-> [band |-> b, output |-> OutputOf(base_name, TileAxes, nchunks)]]

StoreInit ==
    /\ InitWith({<<>>}, {1}, {"async"})

\* add_s3_tables(dataset_refs, storage_output), with any insert raising
CallAddS3Tables ==
    /\ lastCall.calls < MaxCalls
    /\ \E nrefs \in 0..MaxRefs, nbands \in 0..MaxBands, nchunks \in 0..MaxChunks :
         \E call \in {[dataset_refs |-> [i \in 1..nrefs |-> <<lastCall.calls + 1, i>>],
                       storage_output |->
                           StorageOutputOf(lastCall.calls + 1, nbands, nchunks)]} :
           \E failAt \in 0..Len(S3Statements(call.dataset_refs, call.storage_output, uuid)) :
             \E r \in {AddS3Tables(db, call.dataset_refs, call.storage_output, uuid, failAt)} :
                /\ db' = r.db
                /\ uuid' = r.uuid
                /\ lastCall' = [op |-> "add_s3_tables", before |-> db,
                                dataset_refs |-> call.dataset_refs,
                                storage_output |-> call.storage_output, u0 |-> uuid,
                                failAt |-> failAt, raised |-> r.raised,
                                error |-> IF r.raised THEN "Exception" ELSE "none",
                                result |-> 0, calls |-> lastCall.calls + 1]
                /\ included' = IF r.raised THEN included
                               ELSE Append(included, Included(call.dataset_refs,
                                                              call.storage_output))
    /\ UNCHANGED <<tasks, queue_size, executor, pc, pos, pending, completed, n_successful,
                   n_failed, status, submitted, reported, offered, indexed, lastPass,
                   index_failures>>
    /\ UNCHANGED diffVars
    /\ UNCHANGED cmdVars

StoreNext == CallAddS3Tables

StoreSpec == StoreInit /\ [][StoreNext]_vars

(***************************************************************************)
(* The index on its own: direct calls of Index.add_datasets and of         *)
(* DatasetResource.add_s3_tables for the results of a few tiles.           *)
(***************************************************************************)
\* One call leaves the scheduler's variables alone
CallFrame ==
    UNCHANGED <<tasks, queue_size, executor, pc, pos, pending, completed, n_successful,
                n_failed, status, submitted, reported, offered, indexed, lastPass,
                index_failures, cells_in, cells_out, time_size, new_tasks, dpc,
                cells_src, cmd, config, products, discovered, cpc, ret>>

\* datasets.add_s3_tables(dataset_refs, storage_output), any insert raising
DirectAddS3Tables(dataset_refs, storage_output) ==
    \E failAt \in 0..Len(S3Statements(dataset_refs, storage_output, uuid)) :
      \E r \in {AddS3Tables(db, dataset_refs, storage_output, uuid, failAt)} :
         /\ db' = r.db
         /\ uuid' = r.uuid
         /\ lastCall' = [op |-> "add_s3_tables", before |-> db,
                         dataset_refs |-> dataset_refs,
                         storage_output |-> storage_output, u0 |-> uuid,
                         failAt |-> failAt, raised |-> r.raised,
                         error |-> IF r.raised THEN "Exception" ELSE "none",
                         result |-> 0, calls |-> lastCall.calls + 1]
         /\ included' = IF r.raised THEN included
                        ELSE Append(included, Included(dataset_refs, storage_output))

\* index.add_datasets(datasets): the result of a task with or without the
\* attribute storage_output, any insert raising
CallAddDatasets ==
    /\ lastCall.calls < MaxCalls
    /\ \E t \in 1..MaxTasks, nds \in 0..MaxDatasets, attrs \in BOOLEAN :
         \E datasets \in {IF attrs THEN IngestWork(t, nds)
                          ELSE [values |-> IngestWork(t, nds).values]} :
           \E failAt \in 0..(IF attrs THEN StatementCount(datasets) ELSE 0) :
             \E exc \in IF failAt = 0 THEN {"Exception"} ELSE ExceptionKinds :
               \E r \in {AddDatasetsOutcome(db, uuid, datasets, failAt, exc)} :
                  /\ db' = r.db
                  /\ uuid' = r.uuid
                  /\ lastCall' = [op |-> "add_datasets", before |-> db,
                                  dataset_refs |-> datasets.values,
                                  storage_output |->
                                      IF attrs THEN datasets.storage_output ELSE <<>>,
                                  u0 |-> uuid, failAt |-> failAt, raised |-> r.raised,
                                  error |-> r.error, result |-> r.n,
                                  calls |-> lastCall.calls + 1]
                  /\ included' = IF r.raised THEN included
                                 ELSE Append(included, Included(datasets.values,
                                                                datasets.storage_output))
    /\ CallFrame

\* datasets.add_s3_tables(dataset_refs, storage_output) for the datasets and
\* the storage output of one tile, any insert raising
CallAddS3TablesOfTile ==
    /\ lastCall.calls < MaxCalls
    /\ \E t \in 1..MaxTasks, nds \in 0..MaxDatasets :
         DirectAddS3Tables(IngestWork(t, nds).values, IngestWork(t, nds).storage_output)
    /\ CallFrame

\* datasets.add_specifics(dataset) for a dataset of a tile and its
\* measurements; it only reads, and is not counted among the calls
CallAddSpecifics ==
    /\ \E t \in 1..MaxTasks, i \in 1..MaxDatasets, measurements \in SUBSET (1..NumBands) :
         \E s3_metadata \in S3Metadata(db, <<t, i>>, measurements) :
            lastCall' = [op |-> "add_specifics", before |-> db,
                         dataset_refs |-> << <<t, i>> >>, storage_output |-> <<>>,
                         u0 |-> uuid, failAt |-> 0, raised |-> FALSE, error |-> "none",
                         result |-> [lookups |->
                                         AddSpecificsLookups(db, <<t, i>>, measurements),
                                     s3_metadata |-> s3_metadata],
                         calls |-> lastCall.calls]
    /\ UNCHANGED <<db, uuid, included>>
    /\ CallFrame

IndexNext == CallAddDatasets \/ CallAddS3TablesOfTile \/ CallAddSpecifics

IndexSpec == StoreInit /\ [][IndexNext]_vars

(***************************************************************************)
(* The rows of one call: add_s3_tables called once, on an empty store or   *)
(* on a store that holds the rows of an earlier call, for bands that       *)
(* differ in their number of chunk descriptors.                            *)
(***************************************************************************)
\* The k-th chunk descriptor of an array of naxes axes that is cut, along
\* axis a, into chunks of a + 1 elements: its slice bounds per axis and the
\* coordinates of its first and last element
Descriptor(base_name, naxes, k) ==
    [s3_key |-> <<base_name, k>>, chunk_id |-> k, compression |-> "None",
     chunk |-> [a \in 1..naxes |-> [start |-> (k - 1) * (a + 1), stop |-> k * (a + 1)]],
     index_min |-> [a \in 1..naxes |-> NpScalar(10 * a + (k - 1) * (a + 1))],
     index_max |-> [a \in 1..naxes |-> NpScalar(10 * a + k * (a + 1) - 1)]]

\* A storage output whose band b has counts[b] chunk descriptors
StorageOutputOfCounts(base_name, counts) ==
    [b \in 1..Len(counts) |->
        [band |-> b,
         output |-> [OutputOf(base_name, TileAxes, 0) EXCEPT
                        !.key_maps = [k \in 1..counts[b] |->
                                         Descriptor(base_name, Len(TileAxes), k)]]]]

\* The call that filled the store before the call under study
EarlierCall == [dataset_refs |-> << <<0, 1>> >>, storage_output |-> StorageOutputOfCounts(0, <<1>>)]

\* The index of a store that is empty or holds the rows of EarlierCall
ChunkInit ==
    /\ CmdIdle
    /\ DiffIdle
    /\ tasks = <<>>
    /\ queue_size = 1
    /\ executor = "async"
    /\ pc = "topup"
    /\ pos = 0
    /\ pending = <<>>
    /\ completed = <<>>
    /\ n_successful = 0
    /\ n_failed = 0
    /\ status = <<>>
    /\ submitted = <<>>
    /\ reported = {}
    /\ offered = <<>>
    /\ indexed = <<>>
    /\ lastPass = NoPass
    /\ index_failures = 0
    /\ lastCall = NoCall
    /\ \E r \in {[db |-> EmptyDb, uuid |-> 0, raised |-> TRUE],
                  AddS3Tables(EmptyDb, EarlierCall.dataset_refs,
                              EarlierCall.storage_output, 0, 0)} :
          /\ db = r.db
          /\ uuid = r.uuid
          /\ included = IF r.raised THEN <<>>
                        ELSE <<Included(EarlierCall.dataset_refs,
                                        EarlierCall.storage_output)>>

\* add_s3_tables(dataset_refs, storage_output) for any number of dataset
\* references and of bands, any insert raising
CallAddS3TablesOfCounts ==
    /\ lastCall.op = "none"
    /\ \E nrefs \in 0..MaxRefs, nbands \in 0..MaxBands :
         \E counts \in [1..nbands -> 0..MaxKeyMaps] :
            DirectAddS3Tables([i \in 1..nrefs |-> <<1, i>>],
                              StorageOutputOfCounts(1, counts))
    /\ CallFrame

ChunkNext == CallAddS3TablesOfCounts

ChunkSpec == ChunkInit /\ [][ChunkNext]_vars

(***************************************************************************)
(* The chunk set writer: add_s3_tables called on an empty store for one    *)
(* band, over the layouts a storage driver may report.                     *)
(***************************************************************************)
\* Per axis, 0 for a regular axis or the number of coordinates of an
\* irregular one
Layouts == UNION {[1..n -> 0..MaxCoords] : n \in 1..MaxAxes}

CallAddS3TablesOfLayout ==
    /\ lastCall.op = "none"
    /\ \E sizes \in Layouts, nchunks \in 0..MaxChunks :
         DirectAddS3Tables(<< <<1, 1>> >>,
                           << [band |-> 1, output |-> OutputOf(1, sizes, nchunks)] >>)
    /\ CallFrame

LayoutNext == CallAddS3TablesOfLayout

LayoutSpec == StoreInit /\ [][LayoutNext]_vars

(***************************************************************************)
(* The diff engine: remove_duplicates and find_diff.  A cell is its        *)
(* sources' time coordinate, a sequence of timestamps; cells_in and         *)
(* cells_out map an extent (the cell index) to a cell.                      *)
(***************************************************************************)
Extents == {<<0, 0>>, <<0, 1>>}

\* line 45-47: the signatures (extent, timestamp) of cells_out
SigsOut(cells) ==
    UNION {{<<extent, timestamp>> : timestamp \in Range(cells[extent])} :
              extent \in DOMAIN cells}

\* signatures compared by timestamp alone
ToAddAnyExtent(extent, tiles, sigs_out) ==
    SelectSeq(tiles, LAMBDA timestamp : \A sig \in sigs_out : sig[2] # timestamp)

\* line 51-53: the timestamps of a cell whose signature is not in sigs_out
ToAdd(extent, tiles, sigs_out) ==
    SelectSeq(tiles, LAMBDA timestamp : ~(<<extent, timestamp>> \in sigs_out))

\* tiles.loc[to_add]: label-based selection, in the order of the labels
Loc(tiles, labels) ==
    [i \in 1..Len(labels) |-> tiles[CHOOSE j \in 1..Len(tiles) : tiles[j] = labels[i]]]

\* remove_duplicates that leaves every cell as it was
RemoveDuplicatesSkipped(cin, cout) == cin

\* remove_duplicates: the value of cells_in when it returns
RemoveDuplicates(cin, cout) ==
    IF DOMAIN cout = {} THEN cin
    ELSE [extent \in DOMAIN cin |->
             Loc(cin[extent], ToAdd(extent, cin[extent], SigsOut(cout)))]

\* Tile.split('time', step): the runs [i, min(size, i + step)) for i in
\* range(0, size, step), each with the label of its first timestamp
Split(tile, step) ==
    [k \in 1..((Len(tile) + step - 1) \div step) |->
        <<tile[(k - 1) * step + 1],
          SubSeq(tile, (k - 1) * step + 1, Min(Len(tile), k * step))>>]

\* a task that takes the label of the run for its tile
NewTaskOfLabel(t, task) == [tile |-> <<t[1]>>, tile_index |-> task.tile_index]

\* line 70: the task appended for one run t of task's tile
NewTask(t, task) == [tile |-> t[2], tile_index |-> task.tile_index]

\* line 67-70: the tasks of the runs of the tasks, in order
RECURSIVE SplitTasks(_, _)
SplitTasks(ts, step) ==
    IF ts = <<>> THEN <<>>
    ELSE LET tiles == Split(Head(ts).tile, step)
         IN [k \in 1..Len(tiles) |-> NewTask(tiles[k], Head(ts))]
            \o SplitTasks(Tail(ts), step)

\* The orders in which cells_in.items() may yield the cells
ItemOrders(cells) ==
    {order \in [1..Cardinality(DOMAIN cells) -> DOMAIN cells] :
        \A i, j \in DOMAIN order : i # j => order[i] # order[j]}

\* line 64-72 of find_diff, from the gridded cells on
FindDiffTasks(cin, cout, step, order) ==
    LET cells == RemoveDuplicates(cin, cout)
        ts == [i \in 1..Len(order) |-> [tile |-> cells[order[i]], tile_index |-> order[i]]]
    IN SplitTasks(ts, step)

\* The cells list_cells may return: every cell holds at least one timestamp,
\* in increasing order
RECURSIVE Sorted(_)
Sorted(times) ==
    IF times = {} THEN <<>>
    ELSE LET first == CHOOSE t \in times : \A u \in times : t <= u
         IN <<first>> \o Sorted(times \ {first})

SortedTimes(times) == {Sorted(some) : some \in (SUBSET times) \ {{}}}

GriddedCells(times) ==
    UNION {[extents -> SortedTimes(times)] : extents \in SUBSET Extents}

\* The scenario of ten daily tiles at one grid index, four of them indexed
ScenarioIn == [extent \in {<<0, 0>>} |-> [i \in 1..10 |-> i]]

ScenarioOut ==
    {[extent \in {<<0, 0>>} |-> tile] :
        tile \in {t \in SortedTimes(1..10) : Len(t) = 4}}

DiffInit ==
    /\ SchedulerInit({<<>>}, {1}, {"async"})
    /\ \/ /\ cells_in \in GriddedCells(1..MaxTimes)
          /\ cells_out \in GriddedCells(1..MaxTimes)
          /\ time_size \in 1..MaxSlice
       \/ /\ cells_in = ScenarioIn
          /\ cells_out \in ScenarioOut
          /\ time_size = 3
    /\ new_tasks = <<>>
    /\ dpc = "gridded"
    /\ cells_src = cells_in

DiffFrame ==
    UNCHANGED <<tasks, queue_size, executor, pc, pos, pending, completed, n_successful,
                n_failed, status, db, uuid, submitted, reported, offered, indexed,
                lastPass, index_failures, lastCall, included, cmd, config, products,
                discovered, cpc, ret>>

\* remove_duplicates(cells_in, cells_out), called on its own
CallRemoveDuplicates ==
    /\ dpc = "gridded"
    /\ cells_in' = RemoveDuplicates(cells_in, cells_out)
    /\ dpc' = "deduplicated"
    /\ UNCHANGED <<cells_out, time_size, new_tasks, cells_src>>
    /\ DiffFrame

\* find_diff, from line 64 on
FindDiff ==
    /\ dpc = "gridded"
    /\ cells_in' = RemoveDuplicates(cells_in, cells_out)
    /\ \E order \in ItemOrders(cells_in) :
         new_tasks' = FindDiffTasks(cells_in, cells_out, time_size, order)
    /\ dpc' = "returned"
    /\ UNCHANGED <<cells_out, time_size, cells_src>>
    /\ DiffFrame

DiffNext == CallRemoveDuplicates \/ FindDiff

DiffSpec == DiffInit /\ [][DiffNext]_vars

(***************************************************************************)
(* ingest_cmd: ensure_output_type, create_task_list and the call of        *)
(* process_tasks.                                                          *)
(***************************************************************************)
\* The source observations of one timestamp of a tile, as find_diff leaves
\* them (the datasets without their lineage)
Observations(n) == [k \in 1..n |-> [id |-> k, lineage |-> FALSE]]

\* line 226: the number of observations a source may hold without fusing
FuseLimit == 1

\* line 358: the default of --queue-size
DefaultQueueSize == 3200

\* tile.sources.values: one tuple of observations per timestamp, each with
\* as many observations as need no fusing, or with one more; a tile holds
\* one timestamp or as many as a task may hold
SourceArrays ==
    UNION {[1..n -> {Observations(c) : c \in 1..(FuseLimit + 1)}] : n \in {1, MaxDatasets}}

\* The task list find_diff discovers (or a task file holds) for the tiles'
\* source arrays
Found(arrays) ==
    [i \in 1..Len(arrays) |-> [tile |-> [sources |-> arrays[i]], tile_index |-> i]]

\* line 226: the sources of the tile that hold more than one observation
RequireFusing(tile) == SelectSeq(tile.sources, LAMBDA source : Len(source) > FuseLimit)

\* a check that looks at the first timestamp of the tile only
CheckValidFirstSource(cfg, tile, tile_index) ==
    cfg.fuser \/ Len(tile.sources[1]) <= FuseLimit

\* check_valid(tile, tile_index), line 222-230
CheckValid(cfg, tile, tile_index) ==
    IF cfg.fuser THEN TRUE ELSE RequireFusing(tile) = <<>>

\* update_sources: every observation replaced by its full lineage
UpdateSources(sources) == [k \in 1..Len(sources) |-> [sources[k] EXCEPT !.lineage = TRUE]]

\* update_task, line 235-239
UpdateTask(task) ==
    [task EXCEPT !.tile.sources = [i \in 1..Len(@) |-> UpdateSources(@[i])]]

\* line 241: the generator create_task_list returns, as the sequence it yields
CreateTaskList(cfg, found) ==
    LET valid == SelectSeq(found, LAMBDA task : CheckValid(cfg, task.tile, task.tile_index))
    IN [i \in 1..Len(valid) |-> UpdateTask(valid[i])]

\* A task as process_tasks and ingest_work use it: ingest_work makes one
\* dataset per timestamp of the tile (line 269)
AsTask(task) ==
    [tile_index |-> task.tile_index, nds |-> Len(task.tile.sources), tile |-> task.tile]

\* an ensure_output_type that updates the product whether allowed or not
EnsureOutputTypeAlways(p, allow_product_changes) ==
    IF ~p.source THEN [outcome |-> "exit 1", products |-> p]
    ELSE IF p.existing
    THEN IF p.safe_changes \/ p.unsafe_changes
         THEN [outcome |-> "ok", products |-> [p EXCEPT !.updated = @ + 1]]
         ELSE [outcome |-> "ok", products |-> p]
    ELSE [outcome |-> "ok", products |-> [p EXCEPT !.existing = TRUE, !.added = @ + 1]]

\* ensure_output_type, line 168-188: how it ends and the product table it
\* leaves
EnsureOutputType(p, allow_product_changes) ==
    IF ~p.source THEN [outcome |-> "exit 1", products |-> p]
    ELSE IF p.existing
    THEN IF p.safe_changes \/ p.unsafe_changes
         THEN IF ~allow_product_changes
              THEN [outcome |-> "ValueError", products |-> p]
              ELSE [outcome |-> "ok", products |-> [p EXCEPT !.updated = @ + 1]]
         ELSE [outcome |-> "ok", products |-> p]
    ELSE [outcome |-> "ok", products |-> [p EXCEPT !.existing = TRUE, !.added = @ + 1]]

\* The product tables ensure_output_type may meet: can_update reports
\* changes only for a product that exists
ProductTables ==
    {p \in [source : BOOLEAN, existing : BOOLEAN, safe_changes : BOOLEAN,
            unsafe_changes : BOOLEAN, added : {0}, updated : {0}] :
        ~p.existing => (~p.safe_changes /\ ~p.unsafe_changes)}

\* a command that schedules in dry-run mode too
StopsBeforeSchedulingNever(options) == FALSE

\* line 392-398: the two modes that return before process_tasks is called
StopsBeforeScheduling(options) == options.dry_run \/ options.save_tasks

\* ingest_cmd is entered; process_tasks has not been called.  The executor
\* is the one --executor defaults to (click.py line 308), the queue size the
\* default of --queue-size.
IngestInit ==
    /\ cmd \in [config_file : BOOLEAN, load_tasks : BOOLEAN, dry_run : BOOLEAN,
                save_tasks : BOOLEAN, allow_product_changes : BOOLEAN]
    /\ config \in [fuser : BOOLEAN]
    /\ products \in ProductTables
    /\ discovered = <<>>
    /\ cpc = "start"
    /\ ret = "none"
    /\ tasks = <<>>
    /\ queue_size = DefaultQueueSize
    /\ executor = "serial"
    /\ pc = "idle"
    /\ pos = 0
    /\ pending = <<>>
    /\ completed = <<>>
    /\ n_successful = 0
    /\ n_failed = 0
    /\ status = <<>>
    /\ db = EmptyDb
    /\ uuid = 0
    /\ submitted = <<>>
    /\ reported = {}
    /\ offered = <<>>
    /\ indexed = <<>>
    /\ lastPass = NoPass
    /\ index_failures = 0
    /\ lastCall = NoCall
    /\ included = <<>>
    /\ DiffIdle

\* ingest_cmd, line 377-400, up to its return or to the call of
\* process_tasks on line 400.  The task list is kept only when the command
\* goes on to process_tasks: otherwise it is written to a file or looked at
\* for existing files, and dropped.
IngestCmd ==
    /\ cpc = "start"
    /\ LET given == cmd.config_file \/ cmd.load_tasks
           e == EnsureOutputType(products, cmd.allow_product_changes)
           scheduled == given /\ e.outcome = "ok" /\ ~StopsBeforeScheduling(cmd)
       IN \E n \in (IF scheduled THEN 0..MaxTasks ELSE {0}) :
          \E arrays \in [1..n -> SourceArrays] :
          LET found == Found(arrays)
              yielded == IF cmd.config_file THEN CreateTaskList(config, found) ELSE found
              ts == IF scheduled THEN [i \in 1..Len(yielded) |-> AsTask(yielded[i])]
                    ELSE <<>>
          IN
            /\ products' = IF given THEN e.products ELSE products
            /\ discovered' = found
            /\ tasks' = ts
            /\ status' = [t \in 1..Len(ts) |-> "none"]
            /\ submitted' = [t \in 1..Len(ts) |-> 0]
            /\ offered' = [t \in 1..Len(ts) |-> 0]
            /\ indexed' = [t \in 1..Len(ts) |-> 0]
            /\ pc' = IF scheduled THEN "topup" ELSE "idle"
            /\ cpc' = IF ~given THEN "returned"
                      ELSE IF e.outcome = "ValueError" THEN "raised"
                      ELSE IF e.outcome = "exit 1" THEN "exited"
                      ELSE IF scheduled THEN "scheduling"
                      ELSE "returned"
            /\ ret' = IF ~given THEN "1"
                      ELSE IF e.outcome # "ok" THEN e.outcome
                      ELSE IF scheduled THEN "none"
                      ELSE "0"
    /\ UNCHANGED <<cmd, config, queue_size, executor, pos, pending, completed,
                   n_successful, n_failed, db, uuid, reported, lastPass, index_failures,
                   lastCall, included>>
    /\ UNCHANGED diffVars

\* line 400-403: process_tasks has returned, the counters are echoed
IngestReturn ==
    /\ cpc = "scheduling"
    /\ pc = "done"
    /\ cpc' = "returned"
    /\ ret' = "0"
    /\ UNCHANGED <<tasks, queue_size, executor, pc, pos, pending, completed, n_successful,
                   n_failed, status, db, uuid, submitted, reported, offered, indexed,
                   lastPass, index_failures, lastCall, included, cmd, config, products,
                   discovered>>
    /\ UNCHANGED diffVars

\* line 328-332 with a catalog in which no insert raises
CleanIndexPass ==
    /\ pc = "index"
    /\ Pass(0)

IngestNext == IngestCmd \/ TopUp \/ Poll \/ CleanIndexPass \/ IngestReturn

IngestSpec == IngestInit /\ [][IngestNext]_vars

TypeOK ==
    /\ pc \in {"topup", "poll", "index", "done"}
    /\ queue_size \in Nat \ {0}
    /\ executor \in Executors
    /\ pos \in 0..Len(tasks)
    /\ Range(pending) \subseteq 1..Len(tasks)
    /\ Range(completed) \subseteq 1..Len(tasks)
    /\ n_successful \in Nat
    /\ n_failed \in Nat
    /\ status \in [1..Len(tasks) -> {"none", "running", "completed", "failed"}]
    /\ index_failures \in 0..MaxIndexFailures

(***************************************************************************)
(* Properties of process_tasks.                                            *)
(***************************************************************************)
\* Tasks whose handle get_ready returned as completed
CompletedTasks == {t \in reported : status[t] = "completed"}

\* Tasks whose handle get_ready returned as failed
FailedTasks == {t \in reported : status[t] = "failed"}

\* C1: the in-flight list `pending` never holds more than queue_size handles,
\* at any position of the loop (before a top-up, after it, after the poll and
\* after a completed batch was pushed back).
C1_PendingBounded == Len(pending) <= queue_size

\* C1 witness: the list is full right after a batch of two was pushed back
C1_Witness ==
    /\ lastPass.raised
    /\ Len(lastPass.batch) >= 2
    /\ Len(pending) = queue_size

\* C2 as stated: at return the two counters add up to the number of tasks
C2_Original == pc = "done" => n_successful + n_failed = Len(tasks)

\* C2, amended: at return every task was reported either failed or completed;
\* n_failed is the number of failed tasks and n_successful is the number of
\* logical datasets in the results of the completed tasks (so the counters add
\* up to the number of tasks when every result holds exactly one dataset).
C2_Amended ==
    pc = "done" =>
        /\ CompletedTasks \cup FailedTasks = 1..Len(tasks)
        /\ n_failed = Cardinality(FailedTasks)
        /\ n_successful = SumOver([t \in 1..Len(tasks) |-> tasks[t].nds], CompletedTasks)
        /\ ((\A t \in CompletedTasks : tasks[t].nds = 1)
               => n_successful + n_failed = Len(tasks))

\* C2 witness: a run with a failed task, a completed task of two datasets and
\* an indexing pass that raised has returned
C2_Witness ==
    /\ pc = "done"
    /\ FailedTasks # {}
    /\ \E t \in CompletedTasks : tasks[t].nds = 2
    /\ index_failures > 0

\* C3: process_tasks has returned only if the task source is exhausted, the
\* in-flight list is empty and every submitted handle was reported completed
\* or failed by get_ready; so while some submitted handle is unreported the
\* loop has not ended.
C3_ReturnsOnlyWhenDrained ==
    /\ pc = "done" => pos = Len(tasks) /\ pending = <<>> /\ completed = <<>>
    /\ (\E t \in 1..Len(tasks) : submitted[t] > 0 /\ t \notin reported) => pc # "done"

\* C3 witness: the loop is still running after the source is exhausted,
\* because a submitted handle has not been reported yet
C3_Witness ==
    /\ pc = "topup"
    /\ pos = Len(tasks)
    /\ n_failed > 0
    /\ \E t \in Range(pending) : status[t] = "running" /\ t \notin reported

\* C4: under the fairness of FairSpec (handles are eventually reported,
\* indexing eventually succeeds) process_tasks eventually returns.
C4_EventuallyReturns == <>(pc = "done")

\* C4 witness: a run over a longest task sequence returned after an indexing pass raised
C4_Witness ==
    /\ pc = "done"
    /\ Len(tasks) = LiveTasks
    /\ index_failures > 0
    /\ CompletedTasks # {}

\* C5: with an executor that reports every submitted handle as failed,
\* process_tasks returns, with n_successful = 0 and n_failed = number of
\* tasks, and no handle is ever offered to _index_datasets.
C5_AllFailed ==
    /\ [](executor = "failing" =>
            /\ n_successful = 0
            /\ \A t \in 1..Len(tasks) : offered[t] = 0
            /\ pc # "index"
            /\ pc = "done" => n_failed = Len(tasks))
    /\ (executor = "failing" ~> pc = "done")

\* C5 witness: such a run over two or more tasks has returned
C5_Witness ==
    /\ executor = "failing"
    /\ pc = "done"
    /\ Len(tasks) >= 2
    /\ n_failed = Len(tasks)

\* C6: a pass that raises puts every handle of its batch back into `pending`
\* (and nothing else), leaves n_successful as it was, and the next poll hands
\* every handle that awaits re-indexing to the indexing step again.
C6_BatchRequeued ==
    /\ [][(pc = "index" /\ lastPass'.raised) =>
            /\ pending' = pending \o completed
            /\ completed # <<>>
            /\ n_successful' = n_successful
            /\ n_failed' = n_failed]_vars
    /\ [][pc = "poll" =>
            \A h \in Range(pending) :
                offered[h] > 0 => (h \in Range(completed') /\ pc' = "index")]_vars

\* C6 witness: a handle was offered for indexing a second time and indexed
C6_Witness == \E h \in 1..Len(tasks) : offered[h] = 2 /\ indexed[h] = 1

\* The result of task t is in the store: its datasets are in the catalog, and
\* for every band some chunk set of the task is mapped to each dataset
Written(t) ==
    \A i \in 1..tasks[t].nds :
        /\ <<tasks[t].tile_index, i>> \in db.dataset
        /\ \A b \in 1..NumBands :
             \E m \in db.S3_DATASET_MAPPING :
                /\ m.dataset_ref = <<tasks[t].tile_index, i>>
                /\ m.band = b
                /\ \E r \in db.S3_DATASET :
                     r.id = m.s3_dataset_id /\ r.band = b
                        /\ r.base_name = tasks[t].tile_index

\* Number of chunk sets stored for task t and band b
ChunkSets(t, b) ==
    Cardinality({r \in db.S3_DATASET : r.base_name = tasks[t].tile_index /\ r.band = b})

\* C7: no handle is ever part of two non-raising passes, a handle that was
\* part of one has its result in the store, and at return every completed
\* task was part of exactly one (a raising pass may have written the result
\* before that, so a band may own more than one chunk set).
C7_AtLeastOnce ==
    /\ \A t \in 1..Len(tasks) : indexed[t] <= 1 /\ (indexed[t] = 1 => Written(t))
    /\ pc = "done" => \A t \in CompletedTasks : indexed[t] = 1 /\ Written(t)
    /\ \A t \in 1..Len(tasks) : \A b \in 1..NumBands : ChunkSets(t, b) >= indexed[t]

\* C7 witness: at return the store holds two chunk sets for one band of a
\* task, the first written by a pass that raised later on
C7_Witness ==
    /\ pc = "done"
    /\ \E t \in CompletedTasks : indexed[t] = 1 /\ ChunkSets(t, 1) = 2

\* C8: a task is submitted when the iterator yields it and never again:
\* neither after its handle failed nor after its batch was pushed back.
C8_SubmittedOnce ==
    /\ \A t \in 1..Len(tasks) : submitted[t] = (IF t <= pos THEN 1 ELSE 0)
    /\ pc = "done" => \A t \in 1..Len(tasks) : submitted[t] = 1

\* C8 witness: a run with a failed task and a pushed-back batch has returned
C8_Witness ==
    /\ pc = "done"
    /\ FailedTasks # {}
    /\ \E t \in CompletedTasks : offered[t] = 2

(***************************************************************************)
(* Properties of the indexing transaction.                                 *)
(***************************************************************************)
\* The position, among the inserts of a pass over batch, of the n-th insert
\* into the S3 tables: the catalog inserts of the first result come before it
S3InsertAt(batch, n) == tasks[Head(batch)].nds + n

\* Chunk sets stored for the tasks of a batch
ChunkSetsOf(d, batch) ==
    {r \in d.S3_DATASET : \E h \in Range(batch) : r.base_name = tasks[h].tile_index}

\* C9: when a pass over a batch of 5 completed tasks raises at the 2nd insert
\* into the S3 tables, the pass leaves no row behind in any S3 table (no
\* S3_DATASET row of a batch that was never offered before exists), and all 5
\* handles are in `pending` again.
C9_BatchOfFive ==
    [][(pc = "index" /\ Len(completed) = 5
            /\ lastPass'.failAt = S3InsertAt(completed, 2)) =>
         /\ lastPass'.raised
         /\ db'.S3_DATASET = db.S3_DATASET
         /\ db'.S3_DATASET_CHUNK = db.S3_DATASET_CHUNK
         /\ db'.S3_DATASET_MAPPING = db.S3_DATASET_MAPPING
         /\ ((\A h \in Range(completed) : offered[h] = 0) => ChunkSetsOf(db', completed) = {})
         /\ Range(completed) \subseteq Range(pending')
         /\ Len(pending') = 5
         /\ n_successful' = n_successful]_vars

\* C9 witness: such a pass has just ended
C9_Witness ==
    /\ Len(lastPass.batch) = 5
    /\ lastPass.failAt = S3InsertAt(lastPass.batch, 2)
    /\ lastPass.raised
    /\ Len(pending) = 5
    /\ ChunkSetsOf(db, lastPass.batch) = {}

\* The rows one add_s3_tables call inserts, band by band
RECURSIVE BandRows(_, _, _)
BandRows(dataset_refs, storage_output, u0) ==
    IF storage_output = <<>> THEN <<>>
    ELSE LET first == BandStatements(dataset_refs, Head(storage_output), u0)
         IN <<Range(first)>> \o BandRows(dataset_refs, Tail(storage_output), u0 + Len(first))

\* A statement's row is in its table
Stored(d, stmt) ==
    \/ stmt.table = "S3_DATASET" /\ stmt.row \in d.S3_DATASET
    \/ stmt.table = "S3_DATASET_CHUNK" /\ stmt.row \in d.S3_DATASET_CHUNK
    \/ stmt.table = "S3_DATASET_MAPPING" /\ stmt.row \in d.S3_DATASET_MAPPING

\* C10: after an add_s3_tables call, for each band of the storage output
\* either every row of the band (its S3_DATASET row, its chunk rows, its
\* mapping rows) is stored or none is; a call that raised leaves the three
\* tables as they were, a call that returned has stored every band.
C10_AllOrNothing ==
    lastCall.calls > 0 =>
        LET rows == BandRows(lastCall.dataset_refs, lastCall.storage_output, lastCall.u0)
        IN /\ \A b \in 1..Len(rows) :
                 \/ \A stmt \in rows[b] : Stored(db, stmt)
                 \/ \A stmt \in rows[b] : ~Stored(db, stmt)
           /\ lastCall.raised => db = lastCall.before
           /\ ~lastCall.raised => \A b \in 1..Len(rows) : \A stmt \in rows[b] : Stored(db, stmt)
           /\ lastCall.before.S3_DATASET \subseteq db.S3_DATASET
           /\ lastCall.before.S3_DATASET_CHUNK \subseteq db.S3_DATASET_CHUNK
           /\ lastCall.before.S3_DATASET_MAPPING \subseteq db.S3_DATASET_MAPPING

\* C10 witness: a call over two bands raised in the second band, after the
\* first band's rows were all inserted, on a store that held rows already
C10_Witness ==
    /\ lastCall.raised
    /\ Len(lastCall.storage_output) = 2
    /\ Len(lastCall.dataset_refs) = 2
    /\ lastCall.failAt > Len(BandStatements(lastCall.dataset_refs,
                                            Head(lastCall.storage_output), lastCall.u0))
    /\ lastCall.before.S3_DATASET # {}
    /\ db = lastCall.before

(***************************************************************************)
(* Properties of Index.add_datasets.                                       *)
(***************************************************************************)
\* The latest call was add_datasets and DatasetResource.add raised for one of
\* its datasets
CatalogIndexingFailed ==
    /\ lastCall.op = "add_datasets"
    /\ lastCall.failAt \in 1..Len(lastCall.dataset_refs)

\* C11: when the catalog indexing fails for a dataset of the batch handed to
\* add_datasets, no row is written to S3_DATASET, S3_DATASET_CHUNK or
\* S3_DATASET_MAPPING, and the exception the caller gets is a ValueError.
C11_ValueErrorOnCatalogFailure ==
    CatalogIndexingFailed =>
        /\ db.S3_DATASET = lastCall.before.S3_DATASET
        /\ db.S3_DATASET_CHUNK = lastCall.before.S3_DATASET_CHUNK
        /\ db.S3_DATASET_MAPPING = lastCall.before.S3_DATASET_MAPPING
        /\ lastCall.raised
        /\ lastCall.error = "ValueError"

(***************************************************************************)
(* Properties of the diff engine.                                          *)
(***************************************************************************)
\* Timestamps the output product holds at an extent
OutTimes(extent) == IF extent \in DOMAIN cells_out THEN Range(cells_out[extent]) ELSE {}

Position(tile, timestamp) == CHOOSE i \in 1..Len(tile) : tile[i] = timestamp

\* C12: remove_duplicates removes from each source cell exactly the timestamps
\* t with (extent, t) in cells_out, keeps every other timestamp, in the
\* original order, and leaves cells_in as it was when cells_out is empty.
C12_RemoveDuplicates ==
    dpc = "deduplicated" =>
        /\ DOMAIN cells_in = DOMAIN cells_src
        /\ \A extent \in DOMAIN cells_src :
              /\ Range(cells_in[extent]) = Range(cells_src[extent]) \ OutTimes(extent)
              /\ \A i, j \in 1..Len(cells_in[extent]) :
                    i < j => Position(cells_src[extent], cells_in[extent][i])
                               < Position(cells_src[extent], cells_in[extent][j])
        /\ (DOMAIN cells_out = {} => cells_in = cells_src)

\* C12 witness: a cell lost one timestamp and kept two, one of which the
\* output product holds at the other extent
C12_Witness ==
    /\ dpc = "deduplicated"
    /\ \E extent \in DOMAIN cells_src, other \in DOMAIN cells_out :
         /\ other # extent
         /\ Len(cells_src[extent]) = 3
         /\ Len(cells_in[extent]) = 2
         /\ Range(cells_in[extent]) \cap OutTimes(other) # {}

\* ceil(a / b)
Ceil(a, b) == CHOOSE n \in 0..a : n * b >= a /\ (n = 0 \/ (n - 1) * b < a)

\* The tasks find_diff emitted for an extent, in emission order
TasksOf(extent) == SelectSeq(new_tasks, LAMBDA task : task.tile_index = extent)

RECURSIVE ConcatTiles(_)
ConcatTiles(ts) == IF ts = <<>> THEN <<>> ELSE Head(ts).tile \o ConcatTiles(Tail(ts))

\* C13: for a cell with T remaining timestamps and slice size S, find_diff
\* emits ceil(T / S) tasks, each of at most S timestamps, each with the
\* cell's tile_index, whose timestamps concatenated in emission order are
\* the cell's timestamps in their order.
C13_TimeSlicing ==
    dpc = "returned" =>
        /\ \A i \in 1..Len(new_tasks) :
              /\ new_tasks[i].tile_index \in DOMAIN cells_in
              /\ Len(new_tasks[i].tile) <= time_size
        /\ \A extent \in DOMAIN cells_in :
              /\ Len(TasksOf(extent)) = Ceil(Len(cells_in[extent]), time_size)
              /\ ConcatTiles(TasksOf(extent)) = cells_in[extent]

\* C13 witness: a cell of three remaining timestamps was cut into runs of
\* two and one
C13_Witness ==
    /\ dpc = "returned"
    /\ time_size = 2
    /\ \E extent \in DOMAIN cells_in :
         /\ Len(cells_in[extent]) = 3
         /\ Len(TasksOf(extent)) = 2
         /\ Len(TasksOf(extent)[2].tile) = 1

\* C14: find_diff emits for each source cell ceil((T - A) / S) tasks, T the
\* cell's timestamps and A those of them the output product holds at the
\* same extent; a cell with all its timestamps present yields no task; ten
\* timestamps, four present and S = 3 give two tasks of three timestamps.
C14_EndToEnd ==
    dpc = "returned" =>
        \A extent \in DOMAIN cells_src :
            LET T == Len(cells_src[extent])
                A == Cardinality(Range(cells_src[extent]) \cap OutTimes(extent))
            IN /\ Len(TasksOf(extent)) = Ceil(T - A, time_size)
               /\ (T = A => TasksOf(extent) = <<>>)
               /\ (T = 10 /\ A = 4 /\ time_size = 3 =>
                      /\ Len(TasksOf(extent)) = 2
                      /\ \A i \in 1..2 : Len(TasksOf(extent)[i].tile) = 3)

\* C14 witness: the scenario of ten timestamps, four of them present
C14_Witness ==
    /\ dpc = "returned"
    /\ time_size = 3
    /\ \E extent \in DOMAIN cells_src :
         /\ Len(cells_src[extent]) = 10
         /\ Cardinality(OutTimes(extent)) = 4
         /\ Len(new_tasks) = 2

(***************************************************************************)
(* Properties of the rows _add_s3_dataset and _add_s3_dataset_chunks write. *)
(***************************************************************************)
\* The latest call was an add_s3_tables call that returned
Returned == lastCall.op = "add_s3_tables" /\ ~lastCall.raised

\* The S3_DATASET rows the latest call stored for a band
StoredFor(band) ==
    {r \in db.S3_DATASET \ lastCall.before.S3_DATASET : r.band = band}

\* The axes of an output whose irregular index is not None, in axis order
IrregularAxes(output) ==
    Sorted({a \in 1..Len(output.irregular_index) : ~output.irregular_index[a].none})

\* The coordinates of an axis of the output, as plain scalars
Coordinates(output, a) ==
    [k \in 1..Len(output.irregular_index[a].index) |->
        <<output.irregular_index[a].index[k].np>>]

\* A row without its trailing nulls
RECURSIVE StripNulls(_)
StripNulls(row) ==
    IF row # <<>> /\ row[Len(row)] = Null THEN StripNulls(SubSeq(row, 1, Len(row) - 1))
    ELSE row

\* C15: the rows of the irregular-index table _add_s3_dataset builds, each
\* without its trailing nulls, are the coordinate lists of the irregular
\* axes of the input, in axis order.
C15_PaddingRoundTrip ==
    Returned =>
        \A b \in 1..Len(lastCall.storage_output) :
            LET item == lastCall.storage_output[b]
                axes == IrregularAxes(item.output)
            IN /\ StoredFor(item.band) # {}
               /\ \A r \in StoredFor(item.band) :
                     /\ Len(r.irregular_index) = Len(axes)
                     /\ \A i \in 1..Len(axes) :
                           StripNulls(r.irregular_index[i]) = Coordinates(item.output, axes[i])

\* C15 witness: a chunk set with irregular axes of one and of three
\* coordinates was stored
C15_Witness ==
    /\ Returned
    /\ \E b \in 1..Len(lastCall.storage_output) :
         LET output == lastCall.storage_output[b].output
         IN /\ Len(IrregularAxes(output)) = 2
            /\ Len(output.irregular_index[1].index) = 1
            /\ Len(output.irregular_index[2].index) = 3
            /\ StoredFor(lastCall.storage_output[b].band) # {}

\* C16: in every S3_DATASET row the rows of the irregular-index table have
\* one length; in a row the latest call wrote that length is the size of
\* the longest coordinate list of the input, every row is its list followed
\* by nulls only, and the table is empty when no axis is irregular.
C16_UniformRows ==
    /\ \A r \in db.S3_DATASET :
          \A i, j \in 1..Len(r.irregular_index) :
              Len(r.irregular_index[i]) = Len(r.irregular_index[j])
    /\ Returned =>
          \A b \in 1..Len(lastCall.storage_output) :
              LET item == lastCall.storage_output[b]
                  axes == IrregularAxes(item.output)
              IN \A r \in StoredFor(item.band) :
                    /\ (axes = <<>>) => (r.irregular_index = <<>>)
                    /\ Len(r.irregular_index) = Len(axes)
                    /\ \A i \in 1..Len(axes) :
                          LET list == Coordinates(item.output, axes[i])
                              row == r.irregular_index[i]
                          IN /\ \A a \in Range(axes) :
                                    Len(row) >= Len(item.output.irregular_index[a].index)
                             /\ \E a \in Range(axes) :
                                    Len(row) = Len(item.output.irregular_index[a].index)
                             /\ SubSeq(row, 1, Len(list)) = list
                             /\ \A k \in (Len(list) + 1)..Len(row) : row[k] = Null

\* C16 witness: a stored chunk set whose second axis is the shorter one, and
\* whose row for it ends in two nulls
C16_Witness ==
    /\ Returned
    /\ \E r \in db.S3_DATASET :
         /\ Len(r.irregular_index) = 2
         /\ Len(r.irregular_index[2]) = 3
         /\ r.irregular_index[2][1] # Null
         /\ r.irregular_index[2][2] = Null
         /\ r.irregular_index[1][3] # Null

\* C17: every stored S3_DATASET row has as many dimensions as entries in
\* macro_shape, chunk_size and regular_dims, and every S3_DATASET_CHUNK row
\* stored for it has a micro_shape of that many axes.
C17_AxisCounts ==
    \A r \in db.S3_DATASET :
        /\ Len(r.dimensions) = Len(r.macro_shape)
        /\ Len(r.macro_shape) = Len(r.chunk_size)
        /\ Len(r.chunk_size) = Len(r.regular_dims)
        /\ \A c \in db.S3_DATASET_CHUNK :
              c.s3_dataset_id = r.id => Len(c.micro_shape) = Len(r.dimensions)

\* C17 witness: a chunk set of two axes is stored with a chunk
C17_Witness ==
    \E r \in db.S3_DATASET :
        /\ Len(r.dimensions) = 2
        /\ \E c \in db.S3_DATASET_CHUNK : c.s3_dataset_id = r.id

(***************************************************************************)
(* Properties of the lookup and of the tables over sequences of calls.     *)
(***************************************************************************)
\* Number of calls, among those whose add_s3_tables returned, that were
\* given the dataset id with the band
CallsIncluding(dataset_ref, band) ==
    Cardinality({k \in 1..Len(included) : <<dataset_ref, band>> \in included[k]})

\* Number of entries of a lookup result
Entries(result) == SumOver(result, DOMAIN result)

C19_AppendOnly ==
    [][/\ db.S3_DATASET \subseteq db'.S3_DATASET
       /\ db.S3_DATASET_CHUNK \subseteq db'.S3_DATASET_CHUNK
       /\ db.S3_DATASET_MAPPING \subseteq db'.S3_DATASET_MAPPING]_vars

\* C19 witness: a call that returned added rows to tables that held rows
C19_Witness ==
    /\ lastCall.op \in {"add_s3_tables", "add_datasets"}
    /\ ~lastCall.raised
    /\ lastCall.before.S3_DATASET # {}
    /\ lastCall.before.S3_DATASET_MAPPING # {}
    /\ db.S3_DATASET # lastCall.before.S3_DATASET

(***************************************************************************)
(* Ordering in process_tasks.                                              *)
(***************************************************************************)
\* The step writes a catalog row or an S3 row of task t
WritesFor(t) ==
    \/ \E ds \in db'.dataset \ db.dataset : ds[1] = tasks[t].tile_index
    \/ \E r \in db'.S3_DATASET \ db.S3_DATASET : r.base_name = tasks[t].tile_index
    \/ \E m \in db'.S3_DATASET_MAPPING \ db.S3_DATASET_MAPPING :
          m.dataset_ref[1] = tasks[t].tile_index

\* C20: a step writes index rows of a task only in the indexing pass of a
\* cycle whose poll returned the task's handle as completed (the results
\* fetched are those of `completed`), and no step lowers n_successful or
\* n_failed.
C20_WriteAfterFetch ==
    [][/\ \A t \in 1..Len(tasks) :
             WritesFor(t) =>
                 /\ pc = "index"
                 /\ t \in Range(completed)
                 /\ t \in reported
                 /\ status[t] = "completed"
       /\ n_successful' >= n_successful
       /\ n_failed' >= n_failed]_vars

\* C20 witness: a pass has written the result of one task while another
\* task had failed, and both counters have moved
C20_Witness ==
    /\ lastPass.batch # <<>>
    /\ ~lastPass.raised
    /\ \A t \in Range(lastPass.batch) : Written(t)
    /\ n_successful > 0
    /\ n_failed > 0

(***************************************************************************)
(* The serial backend.                                                     *)
(***************************************************************************)
\* C21: with the serial executor (submit runs the task, get_ready reports
\* every handle in flight as completed) no handle is ever counted as failed
\* and a poll leaves nothing in flight; while no indexing pass raises,
\* process_tasks eventually returns, and it returns with every task's result
\* indexed by exactly one pass, written to the store, and n_failed = 0.
C21_SerialBackend ==
    /\ [](executor = "serial" =>
            /\ n_failed = 0
            /\ pc = "index" => pending = <<>>
            /\ (pc = "done" /\ index_failures = 0) =>
                  \A t \in 1..Len(tasks) :
                      offered[t] = 1 /\ indexed[t] = 1 /\ Written(t))
    /\ (executor = "serial" ~> (pc = "done" \/ index_failures > 0))

\* C21 witness: a serial run over a longest task sequence, one task per
\* cycle, has returned without any pass raising
C21_Witness ==
    /\ executor = "serial"
    /\ pc = "done"
    /\ Len(tasks) = LiveTasks
    /\ queue_size = 1
    /\ index_failures = 0
    /\ \A t \in 1..Len(tasks) : indexed[t] = 1

(***************************************************************************)
(* Properties of ingest_cmd.                                               *)
(***************************************************************************)
\* process_tasks was called with the tasks of create_task_list
ScheduledFromConfig == cmd.config_file /\ pc # "idle"

\* Some timestamp of the discovered task holds more than one observation
NeedsFusing(task) ==
    \E i \in 1..Len(task.tile.sources) : Len(task.tile.sources[i]) > 1

\* The discovered tasks the scheduler was given
Yielded == {i \in 1..Len(discovered) :
               \E t \in 1..Len(tasks) : tasks[t].tile_index = discovered[i].tile_index}

\* The discovered tasks the scheduler has submitted to the executor
SubmittedOf == {i \in 1..Len(discovered) :
                   \E t \in 1..Len(tasks) :
                       tasks[t].tile_index = discovered[i].tile_index /\ submitted[t] > 0}

\* C22: when process_tasks runs on the tasks of create_task_list, without a
\* fuse function a discovered task is in the sequence iff none of its
\* timestamps holds more than one source observation, and with a fuse
\* function every discovered task is; the sequence keeps the order of
\* discovery and holds no task twice; only yielded tasks are ever submitted
\* (a rejected task never is), and at return every yielded task was.
C22_CheckValid ==
    ScheduledFromConfig =>
        /\ ~config.fuser => Yielded = {i \in 1..Len(discovered) : ~NeedsFusing(discovered[i])}
        /\ config.fuser => Yielded = 1..Len(discovered)
        /\ Len(tasks) = Cardinality(Yielded)
        /\ \A t, u \in 1..Len(tasks) : t < u => tasks[t].tile_index < tasks[u].tile_index
        /\ SubmittedOf \subseteq Yielded
        /\ \A i \in SubmittedOf : config.fuser \/ ~NeedsFusing(discovered[i])
        /\ pc = "done" => SubmittedOf = Yielded

\* C22 witness: without a fuse function the command has returned after a
\* run in which a task whose second timestamp holds two observations was
\* dropped and a task that needs no fusing was submitted and indexed
C22_Witness ==
    /\ ScheduledFromConfig
    /\ ~config.fuser
    /\ cpc = "returned"
    /\ \E i \in 1..Len(discovered) :
          /\ i \notin Yielded
          /\ Len(discovered[i].tile.sources) = 2
          /\ Len(discovered[i].tile.sources[1]) = 1
          /\ Len(discovered[i].tile.sources[2]) = 2
    /\ \E t \in 1..Len(tasks) : submitted[t] = 1 /\ indexed[t] = 1

\* ingest_cmd was given a config file or a task file
FileGiven == cmd.config_file \/ cmd.load_tasks

\* C23: once ingest_cmd has run in dry-run mode, in save-tasks mode or with
\* neither a config file nor a task file, it has ended (returning 1 without
\* a file and 0 otherwise, unless ensure_output_type ended it before) and
\* process_tasks was never called: no task sequence was handed over, no task
\* was submitted, the catalog and the S3 tables are as they were and both
\* counters are 0.  (ensure_output_type runs before the mode is looked at,
\* so the product table may have changed.)
C23_ReturnsBeforeScheduling ==
    (cpc # "start" /\ (cmd.dry_run \/ cmd.save_tasks \/ ~FileGiven)) =>
        /\ cpc \in {"returned", "raised", "exited"}
        /\ cpc = "returned" => ret = (IF FileGiven THEN "0" ELSE "1")
        /\ ~FileGiven => cpc = "returned" /\ products.added = 0 /\ products.updated = 0
        /\ pc = "idle"
        /\ tasks = <<>>
        /\ pos = 0
        /\ submitted = <<>>
        /\ pending = <<>>
        /\ db = EmptyDb
        /\ n_successful = 0
        /\ n_failed = 0

\* C23 witness: a dry run with a config file has returned 0 after
\* ensure_output_type added the output product
C23_Witness ==
    /\ cmd.dry_run
    /\ cmd.config_file
    /\ ~cmd.save_tasks
    /\ cpc = "returned"
    /\ ret = "0"
    /\ products.added = 1
    /\ pc = "idle"

\* The output product exists and can_update reports a difference between it
\* and the product made from the source product and the ingest config
ProductDiffers ==
    products.source /\ products.existing /\ (products.safe_changes \/ products.unsafe_changes)

\* C24: once ingest_cmd has run with a config file or a task file, an
\* output product that exists and differs, and allow_product_changes false,
\* it was left by the ValueError of ensure_output_type: products.update and
\* products.add were not called, process_tasks was not called and no task
\* was submitted.
C24_ConfigMismatch ==
    (cpc # "start" /\ FileGiven /\ ProductDiffers /\ ~cmd.allow_product_changes) =>
        /\ cpc = "raised"
        /\ ret = "ValueError"
        /\ products.updated = 0
        /\ products.added = 0
        /\ pc = "idle"
        /\ tasks = <<>>
        /\ pos = 0
        /\ submitted = <<>>
        /\ pending = <<>>
        /\ db = EmptyDb

\* C24 witness: the command, given a task file only, was left by the
\* ValueError for a product with unsafe changes
C24_Witness ==
    /\ cpc = "raised"
    /\ ret = "ValueError"
    /\ cmd.load_tasks
    /\ ~cmd.config_file
    /\ ~cmd.allow_product_changes
    /\ ~cmd.dry_run
    /\ ~cmd.save_tasks
    /\ products.unsafe_changes
    /\ products.updated = 0

(***************************************************************************)
(* The life of a task in process_tasks.                                    *)
(***************************************************************************)
\* Where a task stands, read off the history of the run: pulled and
\* submitted or not, its handle returned by get_ready or not and as what,
\* part of a pass that did not raise or not
TaskStateOf(sub, rep, st, idx, t) ==
    IF sub[t] = 0 THEN "pending"
    ELSE IF t \notin rep THEN "submitted"
    ELSE IF st[t] = "failed" THEN "failed"
    ELSE IF idx[t] > 0 THEN "indexed"
    ELSE "completed"

TaskState(t) == TaskStateOf(submitted, reported, status, indexed, t)

TaskStateNext(t) == TaskStateOf(submitted', reported', status', indexed', t)

\* The handles process_tasks holds: in `pending` or in the batch at hand
InFlight == Range(pending) \cup Range(completed)

\* C25: a task only moves pending -> submitted -> completed or failed, and
\* completed -> indexed; a pass that raises leaves every task of its batch
\* completed and not indexed, back in `pending`; a completed task that is
\* not indexed is in flight, a failed or indexed task is not and never
\* changes again; no task counted as failed was ever offered for indexing.
C25_TaskStateMachine ==
    /\ [](\A t \in 1..Len(tasks) :
            /\ TaskState(t) = "completed" => t \in InFlight
            /\ TaskState(t) \in {"failed", "indexed", "pending"} => t \notin InFlight
            /\ ~(t \in FailedTasks /\ (indexed[t] > 0 \/ offered[t] > 0)))
    /\ [][\A t \in 1..Len(tasks) :
            /\ \/ TaskStateNext(t) = TaskState(t)
               \/ TaskState(t) = "pending" /\ TaskStateNext(t) = "submitted"
               \/ TaskState(t) = "submitted" /\ TaskStateNext(t) \in {"completed", "failed"}
               \/ TaskState(t) = "completed" /\ TaskStateNext(t) = "indexed"
            /\ TaskState(t) \in {"failed", "indexed"} => TaskStateNext(t) = TaskState(t)
            /\ (pc = "index" /\ lastPass'.raised /\ t \in Range(completed)) =>
                  /\ TaskState(t) = "completed"
                  /\ TaskStateNext(t) = "completed"
                  /\ t \in Range(pending')
            /\ (pc = "index" /\ ~lastPass'.raised /\ t \in Range(completed)) =>
                  /\ TaskStateNext(t) = "indexed"
                  /\ t \notin Range(pending')]_vars

\* C25 witness: at return one task is indexed after a pass over it raised
\* and another task has failed
C25_Witness ==
    /\ pc = "done"
    /\ \E t, u \in 1..Len(tasks) :
          /\ TaskState(t) = "indexed"
          /\ offered[t] = 2
          /\ TaskState(u) = "failed"

(***************************************************************************)
(* One cycle of process_tasks: the poll, the failed handles, the pass.     *)
(***************************************************************************)
\* The handles in flight that the poll of this step finds failed
FailedNow == {t \in Range(pending) : status'[t] = "failed"}

\* The handles in flight that the poll of this step finds completed
CompletedNow == {t \in Range(pending) : status'[t] = "completed"}

\* C26: the poll of a cycle adds to n_failed exactly the number of handles
\* get_ready returns as failed and drops them from the handles in flight,
\* whether or not other handles completed; the completed handles of the
\* same poll are all handed to the indexing pass; no other step changes
\* n_failed.
C26_FailedCounted ==
    [][/\ pc = "poll" =>
            /\ n_failed' = n_failed + Cardinality(FailedNow)
            /\ FailedNow \cap (Range(pending') \cup Range(completed')) = {}
            /\ FailedNow \subseteq reported'
            /\ Range(completed') = CompletedNow
            /\ CompletedNow # {} => pc' = "index"
       /\ pc # "poll" => n_failed' = n_failed
       /\ pc = "index" =>
            \A t \in Range(completed) : offered'[t] = offered[t] + 1]_vars

\* C26 witness: with two handles in flight, one was counted as failed and
\* the other is the batch of the indexing pass about to run
C26_Witness ==
    /\ pc = "index"
    /\ queue_size = 2
    /\ Len(tasks) = 2
    /\ n_failed = 1
    /\ Len(completed) = 1
    /\ pending = <<>>
    /\ \A t \in 1..Len(tasks) : offered[t] = 0

\* The logical datasets in the results of a batch of handles
DatasetsOf(batch) == SumOver([t \in 1..Len(tasks) |-> tasks[t].nds], Range(batch))

\* C27: an indexing pass that does not raise adds to n_successful the
\* number of logical datasets in the results of the cycle's completed
\* handles, leaves n_failed as it was, puts none of the handles back into
\* `pending` and leaves every dataset of the batch in the catalog.
C27_SuccessCounted ==
    [][(pc = "index" /\ ~lastPass'.raised) =>
          /\ n_successful' = n_successful + DatasetsOf(completed)
          /\ n_failed' = n_failed
          /\ pending' = pending
          /\ Range(completed) \cap Range(pending') = {}
          /\ completed' = <<>>
          /\ \A t \in Range(completed) : indexed'[t] = indexed[t] + 1
          /\ \A t \in Range(completed) :
                \A i \in 1..tasks[t].nds : <<tasks[t].tile_index, i>> \in db'.dataset]_vars

\* C27 witness: a pass over a batch of two handles, one of them with two
\* datasets, has just ended without raising
C27_Witness ==
    /\ pc = "topup"
    /\ Len(lastPass.batch) = 2
    /\ ~lastPass.raised
    /\ \E t \in Range(lastPass.batch) : tasks[t].nds = 2
    /\ n_successful = DatasetsOf(lastPass.batch)
    /\ n_successful >= 3

\* The handles that are done with: counted as failed, or indexed
Resolved == FailedTasks \cup {t \in 1..Len(tasks) : indexed[t] > 0}

\* The tasks the step pulls from the task iterator
Pulled == (pos + 1)..pos'

\* C28: a top-up pulls at most queue_size - len(pending) tasks from the
\* iterator, none when the list is full, and submits each task it pulls in
\* the same step, once, adding its handle to `pending`; no other step pulls
\* or submits; so the number of tasks pulled never exceeds the number of
\* resolved handles plus queue_size.
C28_BoundedPull ==
    /\ [](/\ pos = Cardinality(Resolved) + Cardinality(InFlight)
          /\ pos <= Cardinality(Resolved) + queue_size)
    /\ [][/\ pos' >= pos
          /\ pc = "topup" =>
                /\ pos' - pos <= Max(0, queue_size - Len(pending))
                /\ Len(pending) >= queue_size => pos' = pos
                /\ \A t \in Pulled :
                      /\ submitted[t] = 0 /\ submitted'[t] = 1
                      /\ status[t] = "none" /\ status'[t] # "none"
                      /\ t \notin Range(pending) /\ t \in Range(pending')
                /\ \A t \in (1..Len(tasks)) \ Pulled : submitted'[t] = submitted[t]
          /\ pc # "topup" => pos' = pos /\ submitted' = submitted]_vars

\* C28 witness: a top-up has left a task in the source, because the handle
\* pushed back by a pass that raised fills `pending`
C28_Witness ==
    /\ pc = "poll"
    /\ pos < Len(tasks)
    /\ Len(pending) = queue_size
    /\ index_failures > 0
    /\ \E t \in Range(pending) : offered[t] > 0

\* C29: a poll that returns no completed handle is followed by the next
\* top-up, not by an indexing pass: the step leaves the catalog, the S3
\* tables, the uuid counter, n_successful and the pass history as they
\* were; an indexing pass only ever runs on a batch that is not empty, and
\* only such a pass changes the store or n_successful.
C29_NoIndexingWithoutCompleted ==
    /\ [](pc = "index" => completed # <<>>)
    /\ [][/\ (pc = "poll" /\ CompletedNow = {}) =>
                /\ pc' = "topup"
                /\ completed' = <<>>
                /\ db' = db
                /\ uuid' = uuid
                /\ n_successful' = n_successful
                /\ offered' = offered
                /\ indexed' = indexed
                /\ index_failures' = index_failures
          /\ (db' # db \/ n_successful' # n_successful \/ offered' # offered) =>
                (pc = "index" /\ completed # <<>>)
          /\ pc = "topup" => pc' \in {"poll", "done"}]_vars

\* C29 witness: a poll has counted a failed handle, found nothing completed
\* and left a running handle in flight; the loop is at its next top-up and
\* nothing was ever indexed
C29_Witness ==
    /\ pc = "topup"
    /\ queue_size = 2
    /\ n_failed = 1
    /\ CompletedTasks = {}
    /\ \E t \in Range(pending) : status[t] = "running"
    /\ db = EmptyDb
    /\ n_successful = 0

(***************************************************************************)
(* process_tasks against a catalog that is broken for good.                *)
(***************************************************************************)
\* The handles in flight fill the queue and all of them were part of a pass
\* that raised
FullOfUnindexed ==
    /\ Cardinality(InFlight) = queue_size
    /\ \A t \in InFlight : offered[t] > 0 /\ indexed[t] = 0

\* C30: when every indexing pass raises, process_tasks has not returned
\* once a handle was reported completed, and n_successful is 0; every pass
\* puts its whole batch back into `pending` and every completed handle is
\* part of the batch of every later poll; once the handles in flight fill
\* the queue and all await re-indexing this stays so, and no step pulls or
\* submits a task.
C30_RetriesForever ==
    /\ [](/\ n_successful = 0
          /\ CompletedTasks # {} => pc # "done"
          /\ CompletedTasks \subseteq InFlight
          /\ \A t \in 1..Len(tasks) : indexed[t] = 0)
    /\ [][/\ pc = "index" =>
                /\ lastPass'.raised
                /\ completed # <<>>
                /\ pending' = pending \o completed
                /\ \A t \in Range(completed) : offered'[t] = offered[t] + 1
          /\ pc = "poll" => CompletedTasks \subseteq Range(completed')
          /\ FullOfUnindexed =>
                /\ FullOfUnindexed'
                /\ pos' = pos
                /\ submitted' = submitted
                /\ pc' # "done"]_vars

\* C30 witness: the handles that fill the queue have been put back by as
\* many passes as the model follows and are the batch of the next pass,
\* while a task is still waiting in the source
C30_Witness ==
    /\ index_failures = MaxRetries
    /\ pc = "index"
    /\ FullOfUnindexed
    /\ pos < Len(tasks)
    /\ \A t \in Range(completed) : offered[t] = MaxRetries

(***************************************************************************)
(* Properties of the rows of one add_s3_tables call.                       *)
(***************************************************************************)
\* The latest call was an add_s3_tables call that raised
Raised == lastCall.op = "add_s3_tables" /\ lastCall.raised

\* The ids uuid4() gave during the latest call are those above lastCall.u0
FromLatestCall(r) == r.id > lastCall.u0

\* C31: an add_s3_tables call that raised while recording any band has left
\* no row of any band of its storage output in any of the three tables, the
\* rows of the bands written before the failing band included.
C31_TaskAtomicity ==
    Raised =>
        LET rows == BandRows(lastCall.dataset_refs, lastCall.storage_output, lastCall.u0)
        IN /\ \A b \in 1..Len(rows) : \A stmt \in rows[b] : ~Stored(db, stmt)
           /\ \A r \in db.S3_DATASET : ~FromLatestCall(r)
           /\ \A r \in db.S3_DATASET_CHUNK : ~FromLatestCall(r)
           /\ \A r \in db.S3_DATASET_MAPPING : ~FromLatestCall(r)

\* C31 witness: a call over two bands raised at its last insert, the last
\* mapping row of the second band, after every row of the first band was
\* written, and no row of the first band is stored
C31_Witness ==
    /\ Raised
    /\ Len(lastCall.storage_output) = 2
    /\ Len(lastCall.dataset_refs) >= 1
    /\ Len(lastCall.storage_output[1].output.key_maps) >= 1
    /\ lastCall.failAt = Len(S3Statements(lastCall.dataset_refs, lastCall.storage_output,
                                          lastCall.u0))
    /\ \A stmt \in BandRows(lastCall.dataset_refs, lastCall.storage_output,
                            lastCall.u0)[1] : ~Stored(db, stmt)

\* The rows the latest call added to each table
NewSets == db.S3_DATASET \ lastCall.before.S3_DATASET

NewChunks == db.S3_DATASET_CHUNK \ lastCall.before.S3_DATASET_CHUNK

NewMappings == db.S3_DATASET_MAPPING \ lastCall.before.S3_DATASET_MAPPING

\* C32: an add_s3_tables call that returned, given B bands, D dataset ids
\* and K_b chunk descriptors for band b, has added exactly B S3_DATASET rows,
\* one per band, whose ids are pairwise distinct and were not in the table
\* before; for each band exactly K_b S3_DATASET_CHUNK rows of the band's new
\* chunk set; and for each band exactly D S3_DATASET_MAPPING rows, one per
\* dataset id, every one of them pointing to the band's new chunk set.
C32_RowCounts ==
    Returned =>
        LET B == Len(lastCall.storage_output)
            D == Len(lastCall.dataset_refs)
        IN /\ Cardinality(NewSets) = B
           /\ Cardinality({s.id : s \in NewSets}) = B
           /\ \A s \in NewSets : \A old \in lastCall.before.S3_DATASET : s.id # old.id
           /\ Cardinality(NewMappings) = B * D
           /\ \A c \in NewChunks : \E s \in NewSets : c.s3_dataset_id = s.id
           /\ \A b \in 1..B :
                 LET item == lastCall.storage_output[b]
                     sets == {s \in NewSets : s.band = item.band}
                     maps == {m \in NewMappings : m.band = item.band}
                 IN /\ Cardinality(sets) = 1
                    /\ \A s \in sets :
                          /\ Cardinality({c \in NewChunks : c.s3_dataset_id = s.id})
                                = Len(item.output.key_maps)
                          /\ \A m \in maps : m.s3_dataset_id = s.id
                    /\ Cardinality(maps) = D
                    /\ \A j \in 1..D :
                          Cardinality({m \in maps : m.dataset_ref = lastCall.dataset_refs[j]}) = 1

\* C32 witness: a call given two dataset ids and two bands, of two chunk
\* descriptors and of one, returned on a store that held rows already: two
\* mapping rows share the first band's new chunk set
C32_Witness ==
    /\ Returned
    /\ lastCall.before.S3_DATASET # {}
    /\ Len(lastCall.dataset_refs) = 2
    /\ Len(lastCall.storage_output) = 2
    /\ Len(lastCall.storage_output[1].output.key_maps) = 2
    /\ Len(lastCall.storage_output[2].output.key_maps) = 1
    /\ \E s \in NewSets :
         /\ s.band = 1
         /\ Cardinality({m \in NewMappings : m.s3_dataset_id = s.id}) = 2

\* The S3_DATASET_CHUNK rows the latest call stored for a band
ChunksFor(band) ==
    {c \in NewChunks : \E s \in StoredFor(band) : c.s3_dataset_id = s.id}

\* C33: for every band, a call that returned has written exactly one
\* S3_DATASET_CHUNK row per chunk descriptor (key_map) of the band; the row's
\* micro_shape has one entry per axis of the descriptor's slice bounds, each
\* equal to stop - start of that axis, and its index_min and index_max hold,
\* axis by axis, the values of the descriptor's index_min and index_max.
C33_ChunkRows ==
    Returned =>
        \A b \in 1..Len(lastCall.storage_output) :
            LET item == lastCall.storage_output[b]
                key_maps == item.output.key_maps
            IN /\ Cardinality(ChunksFor(item.band)) = Len(key_maps)
               /\ \A k \in 1..Len(key_maps) :
                     LET key_map == key_maps[k]
                         rows == {c \in ChunksFor(item.band) : c.s3_key = key_map.s3_key}
                     IN /\ Cardinality(rows) = 1
                        /\ \A c \in rows :
                              /\ c.chunk_id = key_map.chunk_id
                              /\ c.compression_scheme = key_map.compression
                              /\ Len(c.micro_shape) = Len(key_map.chunk)
                              /\ \A a \in 1..Len(key_map.chunk) :
                                    c.micro_shape[a] =
                                        key_map.chunk[a].stop - key_map.chunk[a].start
                              /\ Len(c.index_min) = Len(key_map.index_min)
                              /\ Len(c.index_max) = Len(key_map.index_max)
                              /\ \A a \in 1..Len(key_map.index_min) :
                                    c.index_min[a] = <<key_map.index_min[a].np>>
                              /\ \A a \in 1..Len(key_map.index_max) :
                                    c.index_max[a] = <<key_map.index_max[a].np>>

\* C33 witness: a band of two chunk descriptors was stored, and the row of
\* the second descriptor, whose slices do not start at 0, has a micro_shape
\* that differs from axis to axis
C33_Witness ==
    /\ Returned
    /\ \E b \in 1..Len(lastCall.storage_output) :
         LET item == lastCall.storage_output[b]
         IN /\ Len(item.output.key_maps) = 2
            /\ item.output.key_maps[2].chunk[1].start > 0
            /\ \E c \in ChunksFor(item.band) :
                  /\ c.chunk_id = 2
                  /\ Len(c.micro_shape) = 3
                  /\ c.micro_shape[1] # c.micro_shape[2]
                  /\ c.index_min[1] # c.index_max[1]

(***************************************************************************)
(* Referential integrity of the three S3 tables.                           *)
(***************************************************************************)
\* The S3_DATASET rows with a given id
SetsWithId(id) == {s \in db.S3_DATASET : s.id = id}

\* C34: in every state of the store, whatever add_s3_tables calls returned
\* or raised before, every S3_DATASET_CHUNK row and every S3_DATASET_MAPPING
\* row carries the id of an S3_DATASET row that is stored, and the band of
\* every mapping row is the band of the chunk set it points to.
C34_ReferentialIntegrity ==
    /\ \A c \in db.S3_DATASET_CHUNK : SetsWithId(c.s3_dataset_id) # {}
    /\ \A m \in db.S3_DATASET_MAPPING :
          /\ SetsWithId(m.s3_dataset_id) # {}
          /\ \A s \in SetsWithId(m.s3_dataset_id) : s.band = m.band

\* C34 witness: after a call that returned and a later call that raised in
\* its second band, the store holds chunk rows and mapping rows of two bands
C34_Witness ==
    /\ Raised
    /\ lastCall.calls = 2
    /\ Len(lastCall.storage_output) = 2
    /\ lastCall.failAt > Len(BandStatements(lastCall.dataset_refs,
                                            Head(lastCall.storage_output), lastCall.u0))
    /\ db.S3_DATASET_CHUNK # {}
    /\ \E m1, m2 \in db.S3_DATASET_MAPPING : m1.band # m2.band

====
